---- MODULE Spec2Model ----
(***************************************************************************)
(* Model of the configuration loader (src/src/config.rs) and of the        *)
(* per-connection supervisor (src/src/tcp_server.rs).                      *)
(*                                                                         *)
(* Spec     : load_configs, one step per loop iteration of the function.   *)
(* SpecSup  : process_stream, one step per await point of the function.    *)
(***************************************************************************)
EXTENDS Integers, Sequences, FiniteSets, TLC

(***************************************************************************)
(* Bounds of the model.                                                    *)
(***************************************************************************)
\* longest config document built from the group-related entries
MaxEntries == 3
\* longest config document built from the transport-coherence servers
MaxServers == 2

(***************************************************************************)
(* Values of option_util: OneOrSome<T> and NoneOrSome<T> keep their        *)
(* variant tag next to the elements they iterate over.                     *)
(***************************************************************************)
One(x) == [tag |-> "One", items |-> <<x>>]
Some(s) == [tag |-> "Some", items |-> s]
NoneOrSome_None == [tag |-> "None", items |-> <<>>]
NoneOrSome_Unspecified == [tag |-> "Unspecified", items |-> <<>>]

\* NoneOrSome::is_empty / OneOrSome::is_empty: no element to iterate over
is_empty(selections) == Len(selections.items) = 0

\* ConfigSelection<T>
Config(c) == [tag |-> "Config", config |-> c]
GroupName(n) == [tag |-> "GroupName", name |-> n]

(***************************************************************************)
(* io::Result of the validation functions.  An Err keeps in val the value  *)
(* the &mut argument is left with when the function returns early.         *)
(***************************************************************************)
Ok(v) == [ok |-> TRUE, val |-> v]
Err(m, v) == [ok |-> FALSE, kind |-> "InvalidInput", msg |-> m, val |-> v]
Panic(v) == [ok |-> FALSE, kind |-> "Panic", msg |-> "Tried to unwrap a ConfigSelection::GroupName", val |-> v]

(***************************************************************************)
(* Config shapes.  Option<TcpConfig> / Option<..QuicConfig> are modelled   *)
(* by their is_some(); bind_interface is left out: its check is compiled   *)
(* only for targets other than android, fuchsia and linux.                 *)
(***************************************************************************)
ClientConfig_default ==
    [address |-> "UNSPECIFIED", protocol |-> "Direct", transport |-> "Tcp",
     tcp_settings |-> FALSE, quic_settings |-> FALSE]

Allow(override_address, client_proxies) ==
    [tag |-> "Allow", override_address |-> override_address,
     client_proxies |-> client_proxies]
Block == [tag |-> "Block"]

RuleConfig_default ==
    [masks |-> One("ANY"),
     action |-> Allow("None", One(Config(ClientConfig_default)))]

direct_allow_rule == One(Config(RuleConfig_default))

cloned_configs(group) == [i \in 1..Len(group) |-> Config(group[i])]

(***************************************************************************)
(* Helpers on results: the value a result carries is replaced, or an       *)
(* element is put in front of the sequence it carries.                     *)
(***************************************************************************)
with_val(r, v) == [r EXCEPT !.val = v]
prepend_val(x, rest) == [rest EXCEPT !.val = <<x>> \o rest.val]
set_items(checked, container) ==
    [checked EXCEPT !.val = [container EXCEPT !.items = checked.val]]

(***************************************************************************)
(* ConfigSelection::replace: walk the selections in order; an inline       *)
(* Config is pushed as it is, a GroupName is replaced by the configs of    *)
(* the group, and an unknown name ends the walk with InvalidInput.         *)
(***************************************************************************)
\* mutant: an unknown group name is skipped instead of reported
replace_selection_skip_unknown(selection, client_groups, rest) ==
    IF ~rest.ok THEN rest
    ELSE IF selection.tag = "Config"
    THEN Ok(<<Config(selection.config)>> \o rest.val)
    ELSE IF selection.name \notin DOMAIN client_groups THEN rest
    ELSE Ok(cloned_configs(client_groups[selection.name]) \o rest.val)

\* mutant: the configs of a group are collected after the inline configs
replace_selection_group_last(selection, client_groups, rest) ==
    IF selection.tag = "GroupName" /\ selection.name \notin DOMAIN client_groups
    THEN Err("No such client group", <<>>)
    ELSE IF ~rest.ok THEN rest
    ELSE IF selection.tag = "Config"
    THEN Ok(<<Config(selection.config)>> \o rest.val)
    ELSE Ok(rest.val \o cloned_configs(client_groups[selection.name]))

\* mutant: the arm of an inline Config forgets to push it
replace_selection_drop_config(selection, client_groups, rest) ==
    IF selection.tag = "GroupName" /\ selection.name \notin DOMAIN client_groups
    THEN Err("No such client group", <<>>)
    ELSE IF ~rest.ok THEN rest
    ELSE IF selection.tag = "Config" THEN rest
    ELSE Ok(cloned_configs(client_groups[selection.name]) \o rest.val)

\* the match arm for one selection, rest being the walk of those after it
replace_selection(selection, client_groups, rest) ==
    IF selection.tag = "GroupName" /\ selection.name \notin DOMAIN client_groups
    THEN Err("No such client group", <<>>)
    ELSE IF ~rest.ok THEN rest
    ELSE IF selection.tag = "Config"
    THEN Ok(<<Config(selection.config)>> \o rest.val)
    ELSE Ok(cloned_configs(client_groups[selection.name]) \o rest.val)

RECURSIVE replace(_, _)
replace(iter, client_groups) ==
    IF iter = <<>> THEN Ok(<<>>)
    ELSE replace_selection(Head(iter), client_groups, replace(Tail(iter), client_groups))

\* `let ret = Self::replace(..)?; mem::replace(selections, Some(ret))`
replaced_by(ret, selections) ==
    IF ret.ok THEN Ok(Some(ret.val)) ELSE Err(ret.msg, selections)

replace_none_or_some_groups(selections, client_groups) ==
    IF is_empty(selections) THEN Ok(selections)
    ELSE replaced_by(replace(selections.items, client_groups), selections)

replace_one_or_some_groups(selections, client_groups) ==
    replaced_by(replace(selections.items, client_groups), selections)

\* mutation: tcp_settings are accepted with any transport
validate_client_config_tcp_settings_unchecked(client_config) ==
    IF client_config.transport # "Quic" /\ client_config.quic_settings
    THEN Err("QUIC transport is not selected but QUIC settings specified", client_config)
    ELSE Ok(client_config)

validate_client_config(client_config) ==
    IF client_config.transport # "Tcp" /\ client_config.tcp_settings
    THEN Err("TCP transport is not selected but TCP settings specified", client_config)
    ELSE IF client_config.transport # "Quic" /\ client_config.quic_settings
    THEN Err("QUIC transport is not selected but QUIC settings specified", client_config)
    ELSE Ok(client_config)

\* the loop of validate_rule_config over the expanded client_proxies
RECURSIVE validate_client_configs(_)
validate_client_configs(selections) ==
    IF selections = <<>> THEN Ok(<<>>)
    ELSE IF Head(selections).tag # "Config" THEN Panic(selections)
    ELSE IF ~validate_client_config(Head(selections).config).ok
    THEN validate_client_config(Head(selections).config)
    ELSE validate_client_configs(Tail(selections))

\* validate_rule_config after replace_one_or_some_groups returned
validate_replaced_proxies(rule_config, replaced) ==
    IF ~replaced.ok THEN Err(replaced.msg, rule_config)
    ELSE with_val(validate_client_configs(replaced.val.items),
                  [rule_config EXCEPT !.action.client_proxies = replaced.val])

validate_rule_config(rule_config, client_groups) ==
    IF rule_config.action.tag = "Allow"
    THEN validate_replaced_proxies(rule_config,
             replace_one_or_some_groups(rule_config.action.client_proxies, client_groups))
    ELSE Ok(rule_config)

\* `for rule_config_selection in rules.iter_mut() { validate_rule_config(..)? }`
RECURSIVE validate_rule_selections(_, _)
rule_then_rest(first, rest_selections, client_groups) ==
    IF ~first.ok THEN with_val(first, <<Config(first.val)>> \o rest_selections)
    ELSE prepend_val(Config(first.val),
                     validate_rule_selections(rest_selections, client_groups))

validate_rule_selections(selections, client_groups) ==
    IF selections = <<>> THEN Ok(<<>>)
    ELSE IF Head(selections).tag # "Config" THEN Panic(selections)
    ELSE rule_then_rest(validate_rule_config(Head(selections).config, client_groups),
                        Tail(selections), client_groups)

\* expansion, then validation, of the override_rules of one target
validate_replaced_rules(replaced, client_groups) ==
    IF ~replaced.ok THEN replaced
    ELSE set_items(validate_rule_selections(replaced.val.items, client_groups),
                   replaced.val)

validate_override_rules(override_rules, client_groups, rule_groups) ==
    validate_replaced_rules(replace_none_or_some_groups(override_rules, rule_groups),
                            client_groups)

(***************************************************************************)
(* validate_server_proxy_config: TLS targets (sni_targets in iteration     *)
(* order, then default_target) and WebSocket targets are validated inner   *)
(* protocol first, then their override_rules.  A target is the pair        *)
(* [protocol, override_rules] of TlsServerConfig / WebsocketServerConfig;  *)
(* default_target is the sequence of no or one target.                     *)
(***************************************************************************)
RECURSIVE validate_server_proxy_config(_, _, _)
RECURSIVE validate_targets(_, _, _)

set_override_rules(rules, target) ==
    [rules EXCEPT !.val = [target EXCEPT !.override_rules = rules.val]]

\* one target after validate_server_proxy_config(protocol, ..) returned inner
validate_target_rules(inner, target, client_groups, rule_groups) ==
    IF ~inner.ok THEN with_val(inner, [target EXCEPT !.protocol = inner.val])
    ELSE set_override_rules(
             validate_override_rules(target.override_rules, client_groups, rule_groups),
             [target EXCEPT !.protocol = inner.val])

validate_target(target, client_groups, rule_groups) ==
    validate_target_rules(
        validate_server_proxy_config(target.protocol, client_groups, rule_groups),
        target, client_groups, rule_groups)

target_then_rest(first, rest_targets, client_groups, rule_groups) ==
    IF ~first.ok THEN with_val(first, <<first.val>> \o rest_targets)
    ELSE prepend_val(first.val, validate_targets(rest_targets, client_groups, rule_groups))

validate_targets(targets, client_groups, rule_groups) ==
    IF targets = <<>> THEN Ok(<<>>)
    ELSE target_then_rest(validate_target(Head(targets), client_groups, rule_groups),
                          Tail(targets), client_groups, rule_groups)

set_default_target(dflt, tls) ==
    [dflt EXCEPT !.val = [tls EXCEPT !.default_target = dflt.val]]
set_websocket_targets(ws, websocket) ==
    [ws EXCEPT !.val = [websocket EXCEPT !.targets.items = ws.val]]

\* the Tls arm after the loop over sni_targets returned sni
validate_default_target(sni, tls, client_groups, rule_groups) ==
    IF ~sni.ok THEN with_val(sni, [tls EXCEPT !.sni_targets = sni.val])
    ELSE set_default_target(
             validate_targets(tls.default_target, client_groups, rule_groups),
             [tls EXCEPT !.sni_targets = sni.val])

\* the iteration the arm of server_proxy_config starts with
first_targets(server_proxy_config) ==
    IF server_proxy_config.type = "Tls" THEN server_proxy_config.sni_targets
    ELSE server_proxy_config.targets.items

\* the arm after that iteration returned first
validate_after_targets(first, server_proxy_config, client_groups, rule_groups) ==
    IF server_proxy_config.type = "Tls"
    THEN validate_default_target(first, server_proxy_config, client_groups, rule_groups)
    ELSE set_websocket_targets(first, server_proxy_config)

\* mutant: the Websocket arm is missing, its targets fall to `_ => ()`
validate_server_proxy_config_skip_websocket(server_proxy_config, client_groups, rule_groups) ==
    IF server_proxy_config.type = "Tls"
    THEN validate_after_targets(
             validate_targets(first_targets(server_proxy_config), client_groups,
                              rule_groups),
             server_proxy_config, client_groups, rule_groups)
    ELSE Ok(server_proxy_config)

validate_server_proxy_config(server_proxy_config, client_groups, rule_groups) ==
    IF server_proxy_config.type \in {"Tls", "Websocket"}
    THEN validate_after_targets(
             validate_targets(first_targets(server_proxy_config), client_groups,
                              rule_groups),
             server_proxy_config, client_groups, rule_groups)
    ELSE Ok(server_proxy_config)

set_protocol(proto, server_config) ==
    [proto EXCEPT !.val = [server_config EXCEPT !.protocol = proto.val]]
set_rules(server_config, seeded, checked) ==
    [server_config EXCEPT !.rules = [seeded EXCEPT !.items = checked.val]]

\* validate_server_config from its loop over the rules on: then the protocol
validate_protocol(checked, server_config, seeded, client_groups, rule_groups) ==
    IF ~checked.ok THEN with_val(checked, set_rules(server_config, seeded, checked))
    ELSE set_protocol(
             validate_server_proxy_config(server_config.protocol, client_groups,
                                          rule_groups),
             set_rules(server_config, seeded, checked))

\* mutant: an empty rule list is left empty
seed_rules_never(rules) == rules

\* `if server_config.rules.is_empty() { server_config.rules = direct_allow_rule(); }`
seed_rules(rules) == IF is_empty(rules) THEN direct_allow_rule ELSE rules

\* validate_server_config after replace_none_or_some_groups returned
validate_replaced_server(replaced, server_config, client_groups, rule_groups) ==
    IF ~replaced.ok THEN Err(replaced.msg, server_config)
    ELSE validate_protocol(
             validate_rule_selections(seed_rules(replaced.val).items, client_groups),
             server_config, seed_rules(replaced.val), client_groups, rule_groups)

\* mutant: quic_settings are accepted whatever the transport
coherence_error_quic_settings_unchecked(server_config) ==
    IF server_config.transport # "Tcp" /\ server_config.tcp_settings
    THEN <<"TCP transport is not selected but TCP settings specified">>
    ELSE IF server_config.transport = "Quic" /\ ~server_config.quic_settings
    THEN <<"QUIC transport is selected but QUIC settings not specified">>
    ELSE IF server_config.bind_location = "Path" /\ server_config.transport # "Tcp"
    THEN <<"Unix domain socket support only available for TCP transport">>
    ELSE <<>>

\* mutant: a Unix socket path is accepted whatever the transport
coherence_error_path_unchecked(server_config) ==
    IF server_config.transport # "Tcp" /\ server_config.tcp_settings
    THEN <<"TCP transport is not selected but TCP settings specified">>
    ELSE IF server_config.transport = "Quic" /\ ~server_config.quic_settings
    THEN <<"QUIC transport is selected but QUIC settings not specified">>
    ELSE IF server_config.transport # "Quic" /\ server_config.quic_settings
    THEN <<"QUIC transport is not selected but QUIC settings specified">>
    ELSE <<>>

\* the checks validate_server_config starts with: the message of the first
\* that fails, in a sequence of no or one message
coherence_error(server_config) ==
    IF server_config.transport # "Tcp" /\ server_config.tcp_settings
    THEN <<"TCP transport is not selected but TCP settings specified">>
    ELSE IF server_config.transport = "Quic" /\ ~server_config.quic_settings
    THEN <<"QUIC transport is selected but QUIC settings not specified">>
    ELSE IF server_config.transport # "Quic" /\ server_config.quic_settings
    THEN <<"QUIC transport is not selected but QUIC settings specified">>
    ELSE IF server_config.bind_location = "Path" /\ server_config.transport # "Tcp"
    THEN <<"Unix domain socket support only available for TCP transport">>
    ELSE <<>>

validate_server_config(server_config, client_groups, rule_groups) ==
    IF coherence_error(server_config) # <<>>
    THEN Err(coherence_error(server_config)[1], server_config)
    ELSE validate_replaced_server(
             replace_none_or_some_groups(server_config.rules, rule_groups),
             server_config, client_groups, rule_groups)

(***************************************************************************)
(* Inputs: the parsed entries (enum Config) the documents are made of.     *)
(***************************************************************************)
cSocks == [ClientConfig_default EXCEPT !.protocol = "Socks"]
\* a client config that validate_client_config accepts: QUIC without settings
cQuic == [ClientConfig_default EXCEPT !.protocol = "Socks", !.transport = "Quic"]
\* a client config that validate_client_config rejects
cBad == [ClientConfig_default EXCEPT !.transport = "Udp", !.tcp_settings = TRUE]

RuleConfig(mask, action) == [masks |-> One(mask), action |-> action]
Target(protocol, override_rules) ==
    [protocol |-> protocol, override_rules |-> override_rules]
Socks == [type |-> "Socks"]
Tls(sni_targets, default_target) ==
    [type |-> "Tls", sni_targets |-> sni_targets, default_target |-> default_target]
Websocket(targets) == [type |-> "Websocket", targets |-> targets]

ServerConfig(bind_location, protocol, transport, tcp_settings, quic_settings, rules) ==
    [bind_location |-> bind_location, protocol |-> protocol, transport |-> transport,
     tcp_settings |-> tcp_settings, quic_settings |-> quic_settings, rules |-> rules]

ServerEntry(sc) == [kind |-> "ServerConfig", server_config |-> sc]
ClientConfigGroup(name, client_proxies) ==
    [kind |-> "ClientConfigGroup", client_group |-> name,
     client_proxies |-> client_proxies]
RuleConfigGroup(name, rules) ==
    [kind |-> "RuleConfigGroup", rule_group |-> name, rules |-> rules]

\* a TCP listener on an address with the given protocol and rules
TcpServer(protocol, rules) ==
    ServerConfig("Address", protocol, "Tcp", FALSE, FALSE, rules)

GroupEntries ==
    { ClientConfigGroup("g1", One(ClientConfig_default)),
      ClientConfigGroup("g1", Some(<<cSocks, ClientConfig_default>>)),
      ClientConfigGroup("g1", Some(<<>>)),
      ClientConfigGroup("direct", One(ClientConfig_default)),
      RuleConfigGroup("r1", One(RuleConfig("ANY", Allow("None", One(GroupName("g1")))))),
      RuleConfigGroup("r1", Some(<<>>)),
      RuleConfigGroup("r1",
          Some(<<RuleConfig("10.0.0.0/8", Block),
                 RuleConfig("ANY", Allow("1.1.1.1:0",
                     Some(<<Config(cQuic), GroupName("g1")>>)))>>)),
      RuleConfigGroup("block-all", One(RuleConfig("ANY", Block))) }

ServerEntries ==
    { \* a rule group reference only
      ServerEntry(TcpServer(Socks, Some(<<GroupName("r1")>>))),
      \* inline rules between group references, TLS with both kinds of target
      ServerEntry(TcpServer(
          Tls(<<Target(Socks, Some(<<GroupName("r1")>>))>>,
              <<Target(Websocket(One(Target(Socks, NoneOrSome_Unspecified))),
                       Some(<<Config(RuleConfig("ANY", Allow("None",
                           Some(<<GroupName("g1"), Config(cSocks)>>))))>>))>>),
          Some(<<Config(RuleConfig("10.0.0.0/8", Allow("None", One(Config(cSocks))))),
                 GroupName("r1"), GroupName("block-all")>>))),
      \* rules written empty, WebSocket over TLS
      ServerEntry(TcpServer(
          Websocket(Some(<<Target(Tls(<<>>, <<Target(Socks,
                               Some(<<GroupName("r1"), GroupName("allow-all-direct")>>))>>),
                           NoneOrSome_None),
                           Target(Socks, One(GroupName("block-all")))>>)),
          NoneOrSome_None)),
      \* a client group name where a rule group name is expected
      ServerEntry(TcpServer(Socks, Some(<<GroupName("g1")>>))),
      \* a rule group name where a client group name is expected
      ServerEntry(TcpServer(Socks,
          Some(<<Config(RuleConfig("ANY", Allow("None", One(GroupName("r1")))))>>))),
      \* QUIC without quic_settings
      ServerEntry(ServerConfig("Address", Socks, "Quic", FALSE, FALSE,
                               Some(<<GroupName("r1")>>))),
      \* rules absent: serde fills in direct_allow_rule()
      ServerEntry(ServerConfig("Path", Socks, "Tcp", FALSE, FALSE, direct_allow_rule)),
      ServerEntry(ServerConfig("Address", Socks, "Tcp", TRUE, FALSE, Some(<<>>))),
      \* an inline client config that is rejected
      ServerEntry(TcpServer(Socks,
          Some(<<Config(RuleConfig("ANY", Allow("None", One(Config(cBad)))))>>))),
      \* an unknown rule group inside a WebSocket target
      ServerEntry(TcpServer(
          Websocket(One(Target(Socks, Some(<<GroupName("nope")>>)))),
          direct_allow_rule)) }

\* every combination of the fields validate_server_config checks for coherence
CoherenceEntries ==
    { ServerEntry(ServerConfig(b, Socks, t, ts, qs, direct_allow_rule)) :
        b \in {"Address", "Path"}, t \in {"Tcp", "Quic", "Udp"},
        ts \in BOOLEAN, qs \in BOOLEAN }

BoundedSeq(S, n) == UNION { [1..k -> S] : k \in 0..n }

Documents ==
    BoundedSeq(GroupEntries \cup ServerEntries, MaxEntries)
        \cup BoundedSeq(CoherenceEntries, MaxServers)

\* a document is given as two files: its first entry, and the rest
Files(doc) == IF doc = <<>> THEN <<>> ELSE <<<<Head(doc)>>, Tail(doc)>>

(***************************************************************************)
(* State of load_configs.                                                  *)
(***************************************************************************)
VARIABLES
    args,            \* the config files, each the entries it parses to
    unread,          \* the files `for config_filename in args` has not read yet
    all_configs,     \* the entries read so far, then those not yet registered
    client_groups,   \* HashMap<String, Vec<ClientConfig>>
    rule_groups,     \* HashMap<String, Vec<RuleConfig>>
    server_configs,  \* Vec<ServerConfig>, validated in place
    idx,             \* position of server_configs.iter_mut()
    result,          \* what load_configs returned, Pending before it returns
    pc               \* read, register, validate, done

(***************************************************************************)
(* State of one process_stream (the supervisor of one accepted stream).    *)
(***************************************************************************)
VARIABLES
    client_proxy_selector,    \* the listener's selector, given to process_stream
    setup_result,             \* the TcpServerSetupResult, once the handshake is done
    wrapper_override,         \* the override selector of the wrapper target the
                              \* handshake went through, if it went through one
    selected_proxy_provider,  \* the selector setup_client_stream is given
    connect_decision,         \* the ConnectDecision of the selector
    client_stream,            \* what setup_client_stream gave, under its timeout
    copy_result,              \* what the copy returned
    log,                      \* the calls made on streams, selectors and sockets
    ret,                      \* what process_stream returned, Pending before
    sup_pc                    \* the await the supervisor is at

load_vars == <<args, unread, all_configs, client_groups, rule_groups, server_configs,
               idx, result, pc>>
sup_vars == <<client_proxy_selector, setup_result, wrapper_override,
              selected_proxy_provider,
              connect_decision, client_stream,
              copy_result, log, ret, sup_pc>>

(***************************************************************************)
(* State of one listener: run_tcp_server or run_unix_server.               *)
(***************************************************************************)
VARIABLES
    bind_location,   \* what start_tcp_server gives the listener to bind
    no_delay,        \* TcpConfig::no_delay
    path_exists,     \* whether there is a file at the socket path
    listen_pc,       \* where the listener is
    listen_log,      \* the calls the listener made, and what it logged
    tasks            \* the supervisors spawned, each running or with its result

listen_vars == <<bind_location, no_delay, path_exists, listen_pc, listen_log, tasks>>

(***************************************************************************)
(* State of start_tcp_server, called with each ServerConfig load_configs   *)
(* returned.                                                               *)
(***************************************************************************)
VARIABLES
    started          \* what each call of start_tcp_server came to, in order
start_vars == <<started>>

vars == <<load_vars, sup_vars, listen_vars, start_vars>>

\* start_tcp_server has not been called
NoServer == started = <<>>

\* no listener is run
NoListener ==
    /\ bind_location = "None"
    /\ no_delay = FALSE
    /\ path_exists = FALSE
    /\ listen_pc = "idle"
    /\ listen_log = <<>>
    /\ tasks = <<>>

\* no stream is being supervised
NoStream ==
    /\ client_proxy_selector = <<>>
    /\ setup_result = <<>>
    /\ wrapper_override = <<>>
    /\ selected_proxy_provider = <<>>
    /\ connect_decision = <<>>
    /\ client_stream = <<>>
    /\ copy_result = <<>>
    /\ log = <<>>
    /\ ret = [tag |-> "Pending"]
    /\ sup_pc = "idle"

Pending == [tag |-> "Pending"]
InvalidInput(m) == [tag |-> "Err", kind |-> "InvalidInput", msg |-> m]
Returned(v) == [tag |-> "Ok", value |-> v]

NoGroups == [n \in {} |-> <<>>]

Init ==
    /\ \E doc \in Documents : args = Files(doc)
    /\ unread = args
    /\ all_configs = <<>>
    /\ client_groups = NoGroups
    /\ rule_groups = NoGroups
    /\ server_configs = <<>>
    /\ idx = 1
    /\ result = Pending
    /\ pc = "read"
    /\ NoStream
    /\ NoListener
    /\ NoServer

builtin_client_groups == [n \in {"direct"} |-> <<ClientConfig_default>>]
builtin_rule_groups ==
    [n \in {"allow-all-direct", "block-all"} |->
        IF n = "allow-all-direct"
        THEN <<RuleConfig("ANY", Allow("None", One(Config(ClientConfig_default))))>>
        ELSE <<RuleConfig("ANY", Block)>>]

\* HashMap::insert
insert(map, key, value) ==
    [n \in DOMAIN map \cup {key} |-> IF n = key THEN value ELSE map[n]]

\* one iteration of `for config_filename in args`: the file is read and parsed
\* and its entries appended, or the function returns the error
ReadFile ==
    /\ pc = "read" /\ unread # <<>>
    /\ \/ /\ all_configs' = all_configs \o Head(unread)
          /\ unread' = Tail(unread)
          /\ UNCHANGED <<result, pc>>
       \/ /\ \E m \in {"Could not read config file",
                       "Could not parse config file as UTF8",
                       "Could not parse config file as config YAML"} :
                result' = InvalidInput(m)
          /\ pc' = "done"
          /\ UNCHANGED <<all_configs, unread>>
    /\ UNCHANGED <<args, client_groups, rule_groups, server_configs, idx>>
    /\ UNCHANGED <<sup_vars, listen_vars, start_vars>>

\* the group maps are created with the built-in groups
InitGroups ==
    /\ pc = "read" /\ unread = <<>>
    /\ client_groups' = builtin_client_groups
    /\ rule_groups' = builtin_rule_groups
    /\ server_configs' = <<>>
    /\ pc' = IF all_configs = <<>> THEN "validate" ELSE "register"
    /\ UNCHANGED <<args, unread, all_configs, idx, result>>
    /\ UNCHANGED <<sup_vars, listen_vars, start_vars>>

\* mutant: insert's return value is ignored, a second definition overwrites
register_overwrite(config, cg, rg, sc) ==
    IF config.kind = "ClientConfigGroup"
    THEN [client_groups |-> insert(cg, config.client_group, config.client_proxies.items),
          rule_groups |-> rg, server_configs |-> sc, err |-> <<>>]
    ELSE IF config.kind = "RuleConfigGroup"
    THEN [client_groups |-> cg,
          rule_groups |-> insert(rg, config.rule_group, config.rules.items),
          server_configs |-> sc, err |-> <<>>]
    ELSE [client_groups |-> cg, rule_groups |-> rg,
          server_configs |-> Append(sc, config.server_config), err |-> <<>>]

\* mutant: a ServerConfig is validated when it is met, against the groups
\* registered so far
register_validates_at_once(config, cg, rg, sc) ==
    IF config.kind = "ClientConfigGroup"
    THEN [client_groups |-> insert(cg, config.client_group, config.client_proxies.items),
          rule_groups |-> rg, server_configs |-> sc,
          err |-> IF config.client_group \in DOMAIN cg
                  THEN <<"client group already exists">> ELSE <<>>]
    ELSE IF config.kind = "RuleConfigGroup"
    THEN [client_groups |-> cg,
          rule_groups |-> insert(rg, config.rule_group, config.rules.items),
          server_configs |-> sc,
          err |-> IF config.rule_group \in DOMAIN rg
                  THEN <<"rule group already exists">> ELSE <<>>]
    ELSE [client_groups |-> cg, rule_groups |-> rg,
          server_configs |-> Append(sc, config.server_config),
          err |-> IF validate_server_config(config.server_config, cg, rg).ok
                  THEN <<>>
                  ELSE <<validate_server_config(config.server_config, cg, rg).msg>>]

\* what one iteration of `for config in all_configs.into_iter()` does with config
register(config, cg, rg, sc) ==
    IF config.kind = "ClientConfigGroup"
    THEN [client_groups |-> insert(cg, config.client_group, config.client_proxies.items),
          rule_groups |-> rg, server_configs |-> sc,
          err |-> IF config.client_group \in DOMAIN cg
                  THEN <<"client group already exists">> ELSE <<>>]
    ELSE IF config.kind = "RuleConfigGroup"
    THEN [client_groups |-> cg,
          rule_groups |-> insert(rg, config.rule_group, config.rules.items),
          server_configs |-> sc,
          err |-> IF config.rule_group \in DOMAIN rg
                  THEN <<"rule group already exists">> ELSE <<>>]
    ELSE [client_groups |-> cg, rule_groups |-> rg,
          server_configs |-> Append(sc, config.server_config), err |-> <<>>]

Register ==
    /\ pc = "register" /\ all_configs # <<>>
    /\ LET r == register(Head(all_configs), client_groups, rule_groups, server_configs) IN
         /\ client_groups' = r.client_groups
         /\ rule_groups' = r.rule_groups
         /\ server_configs' = r.server_configs
         /\ all_configs' = Tail(all_configs)
         /\ IF r.err # <<>>
            THEN result' = InvalidInput(r.err[1]) /\ pc' = "done"
            ELSE /\ result' = result
                 /\ pc' = IF Tail(all_configs) = <<>> THEN "validate" ELSE "register"
    /\ UNCHANGED <<args, unread, idx>>
    /\ UNCHANGED <<sup_vars, listen_vars, start_vars>>

\* mutant: a config that fails validation is skipped, the loop goes on
Validate_skip_failed ==
    /\ pc = "validate" /\ idx <= Len(server_configs)
    /\ server_configs' = [server_configs EXCEPT
           ![idx] = validate_server_config(server_configs[idx], client_groups, rule_groups).val]
    /\ idx' = idx + 1
    /\ UNCHANGED <<args, unread, all_configs, client_groups, rule_groups, result, pc>>
    /\ UNCHANGED <<sup_vars, listen_vars, start_vars>>

\* one iteration of `for config in server_configs.iter_mut()`
Validate ==
    /\ pc = "validate" /\ idx <= Len(server_configs)
    /\ LET r == validate_server_config(server_configs[idx], client_groups, rule_groups) IN
         /\ server_configs' = [server_configs EXCEPT ![idx] = r.val]
         /\ IF r.ok
            THEN idx' = idx + 1 /\ UNCHANGED <<result, pc>>
            ELSE /\ result' = [tag |-> "Err", kind |-> r.kind, msg |-> r.msg]
                 /\ pc' = "done"
                 /\ idx' = idx
    /\ UNCHANGED <<args, unread, all_configs, client_groups, rule_groups>>
    /\ UNCHANGED <<sup_vars, listen_vars, start_vars>>

\* Ok(server_configs)
Return ==
    /\ pc = "validate" /\ idx > Len(server_configs)
    /\ result' = Returned(server_configs)
    /\ pc' = "done"
    /\ UNCHANGED <<args, unread, all_configs, client_groups, rule_groups,
                   server_configs, idx>>
    /\ UNCHANGED <<sup_vars, listen_vars, start_vars>>

Next == ReadFile \/ InitGroups \/ Register \/ Validate \/ Return

Spec == Init /\ [][Next]_vars

(***************************************************************************)
(* tcp_server.rs: process_stream, the supervisor of one accepted stream.   *)
(* A step of the model runs the supervisor from one await to the next; the *)
(* outcome of the awaited call is chosen by the environment.               *)
(***************************************************************************)
\* the std::io::ErrorKind values the collaborators fail with
ErrorKinds == {"ConnectionRefused", "InvalidData"}

\* NoneOrOne<Arc<ClientProxySelector>>
NoneOrOne_Unspecified == [tag |-> "Unspecified"]
NoneOrOne_None == [tag |-> "None"]
NoneOrOne_One(x) == [tag |-> "One", item |-> x]
is_one(none_or_one) == none_or_one.tag = "One"
unwrap(none_or_one) == none_or_one.item

\* Option<Box<[u8]>>: no element, or one
Option_None == <<>>
Option_Some(x) == <<x>>

ConnectDecision_Allow(client_proxy, remote_location) ==
    [tag |-> "Allow", client_proxy |-> client_proxy,
     remote_location |-> remote_location]
ConnectDecision_Block == [tag |-> "Block"]

\* a ClientProxySelector is an object of its own (an Arc): two selectors made
\* of the same rules are still two selectors
ClientProxySelector(id, rules) == [id |-> id, rules |-> rules]

\* NetLocationMask::matches on the locations of the model
matches(mask, location) ==
    \/ mask = "ANY"
    \/ mask = "10.0.0.0/8" /\ location = "10.1.2.3:22"

matches_any(masks, location) ==
    \E i \in 1..Len(masks.items) : matches(masks.items[i], location)

\* the ConnectDecision a rule's action stands for
decision_of(rule_action, location) ==
    IF rule_action.tag = "Block" THEN ConnectDecision_Block
    ELSE ConnectDecision_Allow(
             rule_action.client_proxies.items[1].config,
             IF rule_action.override_address = "None" THEN location
             ELSE rule_action.override_address)

\* ClientProxySelector::judge: the action of the first rule with a matching mask
RECURSIVE judge_rules(_, _)
judge_rules(rules, location) ==
    IF rules = <<>> THEN ConnectDecision_Block
    ELSE IF matches_any(Head(rules).masks, location)
         THEN decision_of(Head(rules).action, location)
         ELSE judge_rules(Tail(rules), location)

judge(selector, location) == judge_rules(selector.rules, location)

\* ClientProxySelector::default_decision: what an unmatched target gets, the
\* action of the first rule that takes any target, or Block
RECURSIVE default_rules(_)
default_rules(rules) ==
    IF rules = <<>> THEN ConnectDecision_Block
    ELSE IF \E i \in 1..Len(Head(rules).masks.items) : Head(rules).masks.items[i] = "ANY"
         THEN decision_of(Head(rules).action, "UNSPECIFIED")
         ELSE default_rules(Tail(rules))

default_decision(selector) == default_rules(selector.rules)

\* TcpServerSetupResult
TcpForward(remote_location, need_initial_flush, override, response, data) ==
    [variant |-> "TcpForward", remote_location |-> remote_location,
     need_initial_flush |-> need_initial_flush,
     override_proxy_provider |-> override,
     connection_success_response |-> response,
     initial_remote_data |-> data]
BidirectionalUdpForward(remote_location) ==
    [variant |-> "BidirectionalUdpForward", remote_location |-> remote_location]
MultidirectionalUdpForward(need_initial_flush) ==
    [variant |-> "MultidirectionalUdpForward",
     need_initial_flush |-> need_initial_flush]

(***************************************************************************)
(* The streams and selectors the supervisor is run with.                   *)
(***************************************************************************)
RemoteLocations == {"10.1.2.3:22", "example.test:443"}

\* rule lists as start_tcp_server hands them over: expanded, unwrapped
AllowAll == <<RuleConfig_default>>
BlockTen ==
    <<RuleConfig("10.0.0.0/8", Block),
      RuleConfig("ANY", Allow("1.1.1.1:0", Some(<<Config(cSocks)>>)))>>
BlockAll == <<RuleConfig("ANY", Block)>>
OnlyTen == <<RuleConfig("10.0.0.0/8", Allow("None", One(Config(cSocks))))>>

ListenerSelectors ==
    { ClientProxySelector("listener", rules) : rules \in {AllowAll, BlockTen, BlockAll, OnlyTen} }
OverrideSelectors ==
    { ClientProxySelector("override", rules) : rules \in {AllowAll, BlockTen} }

Responses == {Option_None, Option_Some("HTTP/1.1 200 OK")}
InitialData == {Option_None, Option_Some("GET /")}

\* what a wrapper target (TLS, WebSocket) the handshake went through gives as
\* its override_rules: none, or a selector of its own
WrapperOverrides ==
    {NoneOrOne_Unspecified, NoneOrOne_None}
        \cup { NoneOrOne_One(s) : s \in OverrideSelectors }

SetupResults ==
    { TcpForward(l, f, o, r, d) :
          l \in RemoteLocations, f \in BOOLEAN, o \in WrapperOverrides,
          r \in Responses, d \in InitialData }
    \cup { BidirectionalUdpForward(l) : l \in RemoteLocations }
    \cup { MultidirectionalUdpForward(f) : f \in BOOLEAN }

\* Ok(()) and std::io::Error::new(kind, ..)
Ok_unit == [tag |-> "Ok"]
io_Error(kind) == [tag |-> "Err", kind |-> kind]

\* no file is being loaded
NoLoad ==
    /\ args = <<>>
    /\ unread = <<>>
    /\ all_configs = <<>>
    /\ client_groups = NoGroups
    /\ rule_groups = NoGroups
    /\ server_configs = <<>>
    /\ idx = 1
    /\ result = Pending
    /\ pc = "idle"

InitSup ==
    /\ NoLoad
    /\ NoListener
    /\ NoServer
    /\ client_proxy_selector \in ListenerSelectors
    /\ setup_result = <<>>
    /\ wrapper_override = <<>>
    /\ selected_proxy_provider = <<>>
    /\ connect_decision = <<>>
    /\ client_stream = <<>>
    /\ copy_result = <<>>
    /\ log = <<>>
    /\ ret = [tag |-> "Pending"]
    /\ sup_pc = "setup_server_stream"

\* process_stream returns
return(value) ==
    /\ ret' = value
    /\ sup_pc' = "returned"

called(event) == log' = Append(log, event)

\* the selector setup_client_stream is given (mutation: the listener's, always)
select_proxy_provider_listener_always(override_proxy_provider, listener) ==
    listener

\* the selector setup_client_stream is given
select_proxy_provider(override_proxy_provider, listener) ==
    IF is_one(override_proxy_provider) THEN unwrap(override_proxy_provider)
    ELSE listener

\* what an awaited call gives: Ok or an error; under a timeout, also Elapsed
Elapsed == [tag |-> "Elapsed"]
IoResults == {Ok_unit} \cup { io_Error(kind) : kind \in ErrorKinds }
TimedResults == IoResults \cup {Elapsed}

\* mutation: a handshake that does not end in time is reported as it would be
\* had the peer closed the stream
setup_error_as_eof(outcome) ==
    IF outcome = Elapsed THEN io_Error("UnexpectedEof")
    ELSE io_Error(outcome.kind)

\* the error process_stream returns when setup_server_stream gave no result
setup_error(outcome) ==
    IF outcome = Elapsed THEN io_Error("TimedOut")
    ELSE io_Error(outcome.kind)

\* setup_server_stream under its timeout of 60 seconds: the handshake gives a
\* TcpServerSetupResult, fails, or does not end in time
SetupServerStream ==
    /\ sup_pc = "setup_server_stream"
    /\ \E outcome \in TimedResults :
         /\ called([op |-> "setup_server_stream", result |-> outcome])
         /\ IF outcome = Ok_unit
            THEN \E r \in SetupResults, o \in WrapperOverrides :
                   /\ r.variant = "TcpForward" => r.override_proxy_provider = o
                   /\ setup_result' = r
                   /\ wrapper_override' = o
                   /\ sup_pc' = r.variant
                   /\ selected_proxy_provider' =
                          IF r.variant = "TcpForward"
                          THEN select_proxy_provider(r.override_proxy_provider,
                                                     client_proxy_selector)
                          ELSE selected_proxy_provider
                   /\ UNCHANGED ret
            ELSE /\ return(setup_error(outcome))
                 /\ UNCHANGED <<setup_result, wrapper_override, selected_proxy_provider>>
    /\ UNCHANGED <<client_proxy_selector, connect_decision, client_stream, copy_result>>
    /\ UNCHANGED <<load_vars, listen_vars, start_vars>>

\* setup_client_stream, first await: the selector it was given judges the
\* target.  The timeout of 60 seconds of setup_client_stream may elapse here.
Judge ==
    /\ sup_pc = "TcpForward"
    /\ \E outcome \in {judge(selected_proxy_provider, setup_result.remote_location)}
                     \cup (TimedResults \ {Ok_unit}) :
         /\ called([op |-> "judge", selector |-> selected_proxy_provider.id,
                    location |-> setup_result.remote_location, result |-> outcome])
         /\ IF outcome.tag = "Allow"
            THEN /\ connect_decision' = outcome
                 /\ sup_pc' = "connect"
                 /\ UNCHANGED client_stream
            ELSE /\ connect_decision' =
                        IF outcome.tag = "Block" THEN outcome ELSE connect_decision
                 /\ client_stream' =
                        IF outcome.tag = "Block" THEN [tag |-> "None"] ELSE outcome
                 /\ sup_pc' = "client_stream"
    /\ UNCHANGED <<client_proxy_selector, setup_result, wrapper_override,
                   selected_proxy_provider, copy_result, ret>>
    /\ UNCHANGED <<load_vars, listen_vars, start_vars>>

\* setup_client_stream, second await: the client proxy of the decision dials
Connect ==
    /\ sup_pc = "connect"
    /\ \E outcome \in TimedResults :
         /\ called([op |-> "connect", client_proxy |-> connect_decision.client_proxy,
                    location |-> connect_decision.remote_location,
                    result |-> outcome])
         /\ client_stream' = IF outcome = Ok_unit THEN [tag |-> "Some"] ELSE outcome
    /\ sup_pc' = "client_stream"
    /\ UNCHANGED <<client_proxy_selector, setup_result, wrapper_override,
                   selected_proxy_provider, connect_decision, copy_result, ret>>
    /\ UNCHANGED <<load_vars, listen_vars, start_vars>>

\* mutation: blocked, and the supervisor returns without the shutdown
ShutdownBlocked_without_shutdown ==
    /\ sup_pc = "client_stream" /\ client_stream.tag = "None"
    /\ return(Ok_unit)
    /\ UNCHANGED <<client_proxy_selector, setup_result, wrapper_override,
                   selected_proxy_provider, connect_decision, client_stream,
                   copy_result, log>>
    /\ UNCHANGED <<load_vars, listen_vars, start_vars>>

\* Ok(Ok(None)): blocked; the server stream is shut down, whatever that gives
ShutdownBlocked ==
    /\ sup_pc = "client_stream" /\ client_stream.tag = "None"
    /\ called([op |-> "shutdown", stream |-> "server_stream"])
    /\ return(Ok_unit)
    /\ UNCHANGED <<client_proxy_selector, setup_result, wrapper_override,
                   selected_proxy_provider, connect_decision, client_stream,
                   copy_result>>
    /\ UNCHANGED <<load_vars, listen_vars, start_vars>>

\* mutation: the error returned does not keep the kind of the dial error
ShutdownFailed_kind_lost ==
    /\ sup_pc = "client_stream" /\ client_stream.tag = "Err"
    /\ called([op |-> "shutdown", stream |-> "server_stream"])
    /\ return(io_Error("Other"))
    /\ UNCHANGED <<client_proxy_selector, setup_result, wrapper_override,
                   selected_proxy_provider, connect_decision, client_stream,
                   copy_result>>
    /\ UNCHANGED <<load_vars, listen_vars, start_vars>>

\* Ok(Err(e)): the error is returned with its kind, after the shutdown
ShutdownFailed ==
    /\ sup_pc = "client_stream" /\ client_stream.tag = "Err"
    /\ called([op |-> "shutdown", stream |-> "server_stream"])
    /\ return(io_Error(client_stream.kind))
    /\ UNCHANGED <<client_proxy_selector, setup_result, wrapper_override,
                   selected_proxy_provider, connect_decision, client_stream,
                   copy_result>>
    /\ UNCHANGED <<load_vars, listen_vars, start_vars>>

\* mutation: the client setup timed out, and TimedOut is returned without
\* the shutdown
ShutdownTimedOut_without_shutdown ==
    /\ sup_pc = "client_stream" /\ client_stream.tag = "Elapsed"
    /\ return(io_Error("TimedOut"))
    /\ UNCHANGED <<client_proxy_selector, setup_result, wrapper_override,
                   selected_proxy_provider, connect_decision, client_stream,
                   copy_result, log>>
    /\ UNCHANGED <<load_vars, listen_vars, start_vars>>

\* Err(elapsed): TimedOut is returned, after the shutdown
ShutdownTimedOut ==
    /\ sup_pc = "client_stream" /\ client_stream.tag = "Elapsed"
    /\ called([op |-> "shutdown", stream |-> "server_stream"])
    /\ return(io_Error("TimedOut"))
    /\ UNCHANGED <<client_proxy_selector, setup_result, wrapper_override,
                   selected_proxy_provider, connect_decision, client_stream,
                   copy_result>>
    /\ UNCHANGED <<load_vars, listen_vars, start_vars>>

\* Ok(Ok(Some(s))), connection_success_response is Some: it is written to the
\* server stream, and a failure of the write is returned at once
WriteConnectionSuccessResponse ==
    /\ sup_pc = "client_stream" /\ client_stream.tag = "Some"
    /\ setup_result.connection_success_response # Option_None
    /\ \E outcome \in IoResults :
         /\ called([op |-> "write_all", stream |-> "server_stream",
                    data |-> setup_result.connection_success_response[1],
                    result |-> outcome])
         /\ IF outcome = Ok_unit
            THEN sup_pc' = "initial_remote_data" /\ UNCHANGED ret
            ELSE return(outcome)
    /\ UNCHANGED <<client_proxy_selector, setup_result, wrapper_override,
                   selected_proxy_provider, connect_decision, client_stream,
                   copy_result>>
    /\ UNCHANGED <<load_vars, listen_vars, start_vars>>

\* where the supervisor is once the response, if there is one, is written
AtInitialRemoteData ==
    \/ sup_pc = "initial_remote_data"
    \/ /\ sup_pc = "client_stream" /\ client_stream.tag = "Some"
       /\ setup_result.connection_success_response = Option_None

\* mutation: the result of writing initial_remote_data is ignored
WriteInitialRemoteData_result_ignored ==
    /\ AtInitialRemoteData
    /\ setup_result.initial_remote_data # Option_None
    /\ \E outcome \in IoResults :
         called([op |-> "write_all", stream |-> "client_stream",
                 data |-> setup_result.initial_remote_data[1],
                 result |-> outcome])
    /\ sup_pc' = "copy_bidirectional"
    /\ UNCHANGED <<client_proxy_selector, setup_result, wrapper_override,
                   selected_proxy_provider, connect_decision, client_stream,
                   copy_result, ret>>
    /\ UNCHANGED <<load_vars, listen_vars, start_vars>>

\* initial_remote_data is Some: it is written to the client stream, and a
\* failure of the write is returned at once
WriteInitialRemoteData ==
    /\ AtInitialRemoteData
    /\ setup_result.initial_remote_data # Option_None
    /\ \E outcome \in IoResults :
         /\ called([op |-> "write_all", stream |-> "client_stream",
                    data |-> setup_result.initial_remote_data[1],
                    result |-> outcome])
         /\ IF outcome = Ok_unit
            THEN sup_pc' = "copy_bidirectional" /\ UNCHANGED ret
            ELSE return(outcome)
    /\ UNCHANGED <<client_proxy_selector, setup_result, wrapper_override,
                   selected_proxy_provider, connect_decision, client_stream,
                   copy_result>>
    /\ UNCHANGED <<load_vars, listen_vars, start_vars>>

\* where the supervisor is once the initial data, if there is any, is written
AtCopyBidirectional ==
    \/ sup_pc = "copy_bidirectional"
    \/ AtInitialRemoteData /\ setup_result.initial_remote_data = Option_None

\* mutation: the server side is flushed first whenever a response was written
CopyBidirectional_flush_after_response ==
    /\ AtCopyBidirectional
    /\ \E outcome \in IoResults :
         /\ called([op |-> "copy_bidirectional",
                    a_need_initial_flush |->
                        (\/ setup_result.need_initial_flush
                         \/ setup_result.connection_success_response # Option_None),
                    b_need_initial_flush |->
                        (setup_result.initial_remote_data # Option_None),
                    result |-> outcome])
         /\ copy_result' = outcome
    /\ sup_pc' = "shutdown"
    /\ UNCHANGED <<client_proxy_selector, setup_result, wrapper_override,
                   selected_proxy_provider, connect_decision, client_stream, ret>>
    /\ UNCHANGED <<load_vars, listen_vars, start_vars>>

\* copy_bidirectional between the two streams; the client side needs an
\* initial flush when initial data was written to it
CopyBidirectional ==
    /\ AtCopyBidirectional
    /\ \E outcome \in IoResults :
         /\ called([op |-> "copy_bidirectional",
                    a_need_initial_flush |-> setup_result.need_initial_flush,
                    b_need_initial_flush |->
                        (setup_result.initial_remote_data # Option_None),
                    result |-> outcome])
         /\ copy_result' = outcome
    /\ sup_pc' = "shutdown"
    /\ UNCHANGED <<client_proxy_selector, setup_result, wrapper_override,
                   selected_proxy_provider, connect_decision, client_stream, ret>>
    /\ UNCHANGED <<load_vars, listen_vars, start_vars>>

\* mutation: an error of the copy is returned before the streams are shut down
ShutdownBoth_after_copy_result ==
    /\ sup_pc = "shutdown"
    /\ log' = IF copy_result # Ok_unit THEN log
              ELSE log \o <<[op |-> "shutdown", stream |-> "server_stream"],
                            [op |-> "shutdown", stream |-> "client_stream"]>>
    /\ return(copy_result)
    /\ UNCHANGED <<client_proxy_selector, setup_result, wrapper_override,
                   selected_proxy_provider, connect_decision, client_stream,
                   copy_result>>
    /\ UNCHANGED <<load_vars, listen_vars, start_vars>>

\* both streams are shut down together, then the result of the copy is returned
ShutdownBoth ==
    /\ sup_pc = "shutdown"
    /\ log' = log \o <<[op |-> "shutdown", stream |-> "server_stream"],
                       [op |-> "shutdown", stream |-> "client_stream"]>>
    /\ return(copy_result)
    /\ UNCHANGED <<client_proxy_selector, setup_result, wrapper_override,
                   selected_proxy_provider, connect_decision, client_stream,
                   copy_result>>
    /\ UNCHANGED <<load_vars, listen_vars, start_vars>>

\* BidirectionalUdpForward: the listener's selector judges the target; Block
\* returns Ok, a failure is returned as it is
UdpJudge ==
    /\ sup_pc = "BidirectionalUdpForward"
    /\ \E outcome \in {judge(client_proxy_selector, setup_result.remote_location)}
                     \cup (IoResults \ {Ok_unit}) :
         /\ called([op |-> "judge", selector |-> client_proxy_selector.id,
                    location |-> setup_result.remote_location, result |-> outcome])
         /\ IF outcome.tag = "Allow"
            THEN connect_decision' = outcome /\ sup_pc' = "resolve_single_address"
                 /\ UNCHANGED ret
            ELSE IF outcome.tag = "Block"
            THEN connect_decision' = outcome /\ return(Ok_unit)
            ELSE UNCHANGED connect_decision /\ return(outcome)
    /\ UNCHANGED <<client_proxy_selector, setup_result, wrapper_override,
                   selected_proxy_provider, client_stream, copy_result>>
    /\ UNCHANGED <<load_vars, listen_vars, start_vars>>

\* the target is resolved to one address, then the UDP socket of the client
\* proxy is configured; a failure of either is returned as it is
UdpResolve ==
    /\ sup_pc = "resolve_single_address"
    /\ \E resolved \in IoResults, configured \in IoResults :
         IF resolved # Ok_unit
         THEN /\ called([op |-> "resolve_single_address",
                         location |-> connect_decision.remote_location,
                         result |-> resolved])
              /\ return(resolved)
         ELSE /\ log' = log \o <<[op |-> "resolve_single_address",
                                  location |-> connect_decision.remote_location,
                                  result |-> resolved],
                                 [op |-> "configure_udp_socket",
                                  client_proxy |-> connect_decision.client_proxy,
                                  result |-> configured]>>
              /\ IF configured = Ok_unit
                 THEN sup_pc' = "udp_connect" /\ UNCHANGED ret
                 ELSE return(configured)
    /\ UNCHANGED <<client_proxy_selector, setup_result, wrapper_override,
                   selected_proxy_provider, connect_decision, client_stream,
                   copy_result>>
    /\ UNCHANGED <<load_vars, listen_vars, start_vars>>

\* mutation: the result of connecting the socket is ignored
UdpConnect_result_ignored ==
    /\ sup_pc = "udp_connect"
    /\ \E outcome \in IoResults :
         called([op |-> "udp_connect",
                 location |-> connect_decision.remote_location,
                 result |-> outcome])
    /\ sup_pc' = "copy_bidirectional_message"
    /\ UNCHANGED <<client_proxy_selector, setup_result, wrapper_override,
                   selected_proxy_provider, connect_decision, client_stream,
                   copy_result, ret>>
    /\ UNCHANGED <<load_vars, listen_vars, start_vars>>

\* the socket is connected to the address
UdpConnect ==
    /\ sup_pc = "udp_connect"
    /\ \E outcome \in IoResults :
         /\ called([op |-> "udp_connect",
                    location |-> connect_decision.remote_location,
                    result |-> outcome])
         /\ IF outcome = Ok_unit
            THEN sup_pc' = "copy_bidirectional_message" /\ UNCHANGED ret
            ELSE return(outcome)
    /\ UNCHANGED <<client_proxy_selector, setup_result, wrapper_override,
                   selected_proxy_provider, connect_decision, client_stream,
                   copy_result>>
    /\ UNCHANGED <<load_vars, listen_vars, start_vars>>

\* copy_bidirectional_message; its result is returned, no stream is shut down
CopyBidirectionalMessage ==
    /\ sup_pc = "copy_bidirectional_message"
    /\ \E outcome \in IoResults :
         /\ called([op |-> "copy_bidirectional_message", result |-> outcome])
         /\ copy_result' = outcome
         /\ return(outcome)
    /\ UNCHANGED <<client_proxy_selector, setup_result, wrapper_override,
                   selected_proxy_provider, connect_decision, client_stream>>
    /\ UNCHANGED <<load_vars, listen_vars, start_vars>>

\* mutation: the listener's selector judges the unspecified address, where the
\* code asks for its default decision
DefaultDecision_judges_unspecified ==
    /\ sup_pc = "MultidirectionalUdpForward"
    /\ connect_decision' = judge(client_proxy_selector, "UNSPECIFIED")
    /\ IF connect_decision'.tag = "Allow"
       THEN \E configured \in IoResults :
              /\ log' = log \o <<[op |-> "judge", location |-> "UNSPECIFIED",
                                  selector |-> client_proxy_selector.id,
                                  result |-> connect_decision'],
                                 [op |-> "configure_udp_socket",
                                  client_proxy |-> connect_decision'.client_proxy,
                                  result |-> configured]>>
              /\ IF configured = Ok_unit
                 THEN sup_pc' = "copy_multidirectional_message" /\ UNCHANGED ret
                 ELSE return(configured)
       ELSE /\ log' = log \o <<[op |-> "judge", location |-> "UNSPECIFIED",
                                selector |-> client_proxy_selector.id,
                                result |-> connect_decision'],
                               [op |-> "warn"]>>
            /\ return(Ok_unit)
    /\ UNCHANGED <<client_proxy_selector, setup_result, wrapper_override,
                   selected_proxy_provider, client_stream, copy_result>>
    /\ UNCHANGED <<load_vars, listen_vars, start_vars>>

\* MultidirectionalUdpForward: the default decision of the listener's selector.
\* Block is logged and returns Ok; Allow configures the UDP socket of the
\* client proxy, and a failure of that is returned as it is
DefaultDecision ==
    /\ sup_pc = "MultidirectionalUdpForward"
    /\ connect_decision' = default_decision(client_proxy_selector)
    /\ IF connect_decision'.tag = "Allow"
       THEN \E configured \in IoResults :
              /\ log' = log \o <<[op |-> "default_decision",
                                  selector |-> client_proxy_selector.id,
                                  result |-> connect_decision'],
                                 [op |-> "configure_udp_socket",
                                  client_proxy |-> connect_decision'.client_proxy,
                                  result |-> configured]>>
              /\ IF configured = Ok_unit
                 THEN sup_pc' = "copy_multidirectional_message" /\ UNCHANGED ret
                 ELSE return(configured)
       ELSE /\ log' = log \o <<[op |-> "default_decision",
                                selector |-> client_proxy_selector.id,
                                result |-> connect_decision'],
                               [op |-> "warn"]>>
            /\ return(Ok_unit)
    /\ UNCHANGED <<client_proxy_selector, setup_result, wrapper_override,
                   selected_proxy_provider, client_stream, copy_result>>
    /\ UNCHANGED <<load_vars, listen_vars, start_vars>>

\* copy_multidirectional_message; its result is returned, no stream is shut down
CopyMultidirectionalMessage ==
    /\ sup_pc = "copy_multidirectional_message"
    /\ \E outcome \in IoResults :
         /\ called([op |-> "copy_multidirectional_message",
                    a_need_initial_flush |-> setup_result.need_initial_flush,
                    b_need_initial_flush |-> FALSE,
                    result |-> outcome])
         /\ copy_result' = outcome
         /\ return(outcome)
    /\ UNCHANGED <<client_proxy_selector, setup_result, wrapper_override,
                   selected_proxy_provider, connect_decision, client_stream>>
    /\ UNCHANGED <<load_vars, listen_vars, start_vars>>

NextSup ==
    \/ SetupServerStream
    \/ Judge \/ Connect
    \/ ShutdownBlocked \/ ShutdownFailed \/ ShutdownTimedOut
    \/ WriteConnectionSuccessResponse \/ WriteInitialRemoteData
    \/ CopyBidirectional \/ ShutdownBoth
    \/ UdpJudge \/ UdpResolve \/ UdpConnect \/ CopyBidirectionalMessage
    \/ DefaultDecision \/ CopyMultidirectionalMessage

SpecSup == InitSup /\ [][NextSup]_vars

\* mutation: only the handshake runs under a timeout
timeout_armed_handshake_only == SetupServerStream

\* the awaits process_stream wraps in timeout(Duration::from_secs(60), ..): the
\* handshake, and setup_client_stream with its judge and its dial. Each ends
\* with its own result or, when the 60 seconds are over, with Elapsed.
timeout_armed == SetupServerStream \/ Judge \/ Connect

\* the copy loops: no timeout, they end when one side ends, fails or resets
copy_ends ==
    CopyBidirectional \/ CopyBidirectionalMessage \/ CopyMultidirectionalMessage

\* what a running process_stream owns: the accepted stream (inside the
\* handshake future, then inside the setup result), the dialled stream, the
\* UDP socket. All are locals of the function and dropped when it returns.
held_streams ==
    IF sup_pc = "returned" THEN {}
    ELSE {"server_stream"}
         \cup (IF client_stream # <<>> /\ client_stream.tag = "Some"
               THEN {"client_stream"} ELSE {})
         \cup (IF sup_pc \in {"udp_connect", "copy_bidirectional_message",
                              "copy_multidirectional_message"}
               THEN {"client_socket"} ELSE {})

\* process_stream on a runtime where an armed timeout fires and a copy ends;
\* default_decision is a plain call. Every other await (write_all, shutdown,
\* the judge, resolve and connect of the UDP arm) has no timeout and ends
\* when the peer or the resolver lets it.
SpecSupFair ==
    /\ InitSup /\ [][NextSup]_vars
    /\ WF_vars(timeout_armed) /\ WF_vars(copy_ends) /\ WF_vars(DefaultDecision)

(***************************************************************************)
(* tcp_server.rs: run_tcp_server and run_unix_server, the accept loops.    *)
(* A listener binds, then accepts for ever; each accepted stream is given  *)
(* to a task of its own that runs process_stream.                          *)
(***************************************************************************)
\* how many times the model lets a listener call accept
MaxAccepts == 3

InitListen ==
    /\ NoLoad
    /\ NoStream
    /\ NoServer
    /\ bind_location \in {"Address", "Path"}
    /\ no_delay \in (IF bind_location = "Address" THEN BOOLEAN ELSE {FALSE})
    /\ path_exists \in (IF bind_location = "Path" THEN BOOLEAN ELSE {FALSE})
    /\ listen_pc = "start"
    /\ listen_log = <<>>
    /\ tasks = <<>>

logged(events) == listen_log' = listen_log \o events

\* the accepts called so far
Accepts == { i \in 1..Len(listen_log) : listen_log[i].op = "accept" }

\* run_tcp_server: TcpListener::bind(..).await.unwrap()
TcpBind ==
    /\ listen_pc = "start" /\ bind_location = "Address"
    /\ \E outcome \in IoResults :
         /\ logged(<<[op |-> "bind", result |-> outcome]>>)
         /\ listen_pc' = IF outcome = Ok_unit THEN "accept" ELSE "panicked"
    /\ UNCHANGED <<bind_location, no_delay, path_exists, tasks>>
    /\ UNCHANGED <<load_vars, sup_vars, start_vars>>

\* run_unix_server: is there something at the socket path?  If so, a warning
\* is printed, and the file is to be removed
UnixCheckPath ==
    /\ listen_pc = "start" /\ bind_location = "Path"
    /\ IF path_exists
       THEN /\ logged(<<[op |-> "symlink_metadata", result |-> Ok_unit],
                        [op |-> "println", msg |-> "WARNING: replacing file at socket path"]>>)
            /\ listen_pc' = "remove_file"
       ELSE /\ logged(<<[op |-> "symlink_metadata", result |-> io_Error("NotFound")]>>)
            /\ listen_pc' = "bind"
    /\ UNCHANGED <<bind_location, no_delay, path_exists, tasks>>
    /\ UNCHANGED <<load_vars, sup_vars, start_vars>>

\* mutation: run_unix_server returns when the file cannot be removed
UnixRemoveFile_failure_returns ==
    /\ listen_pc = "remove_file"
    /\ \E outcome \in IoResults :
         /\ logged(<<[op |-> "remove_file", result |-> outcome]>>)
         /\ path_exists' = (outcome # Ok_unit)
         /\ listen_pc' = IF outcome = Ok_unit THEN "bind" ELSE "returned"
    /\ UNCHANGED <<bind_location, no_delay, tasks>>
    /\ UNCHANGED <<load_vars, sup_vars, start_vars>>

\* the file is removed, or not: the result of remove_file is ignored
UnixRemoveFile ==
    /\ listen_pc = "remove_file"
    /\ \E outcome \in IoResults :
         /\ logged(<<[op |-> "remove_file", result |-> outcome]>>)
         /\ path_exists' = (outcome # Ok_unit)
    /\ listen_pc' = "bind"
    /\ UNCHANGED <<bind_location, no_delay, tasks>>
    /\ UNCHANGED <<load_vars, sup_vars, start_vars>>

\* UnixListener::bind(path_buf).unwrap(): fails when the file is still there
UnixBind ==
    /\ listen_pc = "bind"
    /\ \E outcome \in IoResults :
         /\ path_exists => outcome # Ok_unit
         /\ logged(<<[op |-> "bind", result |-> outcome]>>)
         /\ listen_pc' = IF outcome = Ok_unit THEN "accept" ELSE "panicked"
    /\ UNCHANGED <<bind_location, no_delay, path_exists, tasks>>
    /\ UNCHANGED <<load_vars, sup_vars, start_vars>>

\* mutation: a failed accept ends the loop
AcceptFailed_returns ==
    /\ listen_pc = "accept"
    /\ Cardinality(Accepts) < MaxAccepts
    /\ \E kind \in ErrorKinds :
         logged(<<[op |-> "accept", result |-> io_Error(kind)],
                  [op |-> "error", msg |-> "Accept failed"]>>)
    /\ listen_pc' = "returned"
    /\ UNCHANGED <<bind_location, no_delay, path_exists, tasks>>
    /\ UNCHANGED <<load_vars, sup_vars, start_vars>>

\* listener.accept() fails: the error is logged, and the loop continues
AcceptFailed ==
    /\ listen_pc = "accept"
    /\ Cardinality(Accepts) < MaxAccepts
    /\ \E kind \in ErrorKinds :
         logged(<<[op |-> "accept", result |-> io_Error(kind)],
                  [op |-> "error", msg |-> "Accept failed"]>>)
    /\ listen_pc' = "accept"
    /\ UNCHANGED <<bind_location, no_delay, path_exists, tasks>>
    /\ UNCHANGED <<load_vars, sup_vars, start_vars>>

\* what the listener does with an accepted stream before it spawns: with
\* no_delay, set_nodelay(true), whose failure is logged and nothing more
nodelay_calls(outcome) ==
    IF ~no_delay THEN <<>>
    ELSE IF outcome = Ok_unit THEN <<[op |-> "set_nodelay", result |-> outcome]>>
    ELSE <<[op |-> "set_nodelay", result |-> outcome],
           [op |-> "error", msg |-> "Failed to set TCP nodelay"]>>

\* listener.accept() gives a stream: a task is spawned that runs
\* process_stream on it, and the loop continues without waiting for the task
Accepted ==
    /\ listen_pc = "accept"
    /\ Cardinality(Accepts) < MaxAccepts
    /\ \E outcome \in (IF no_delay THEN IoResults ELSE {Ok_unit}) :
         logged(<<[op |-> "accept", result |-> Ok_unit]>>
                \o nodelay_calls(outcome)
                \o <<[op |-> "spawn", task |-> Len(tasks) + 1]>>)
    /\ tasks' = Append(tasks, [tag |-> "Running"])
    /\ listen_pc' = "accept"
    /\ UNCHANGED <<bind_location, no_delay, path_exists>>
    /\ UNCHANGED <<load_vars, sup_vars, start_vars>>

\* what process_stream returns to its task, which tells Ok from Err only
TaskResults == {Ok_unit, io_Error("TimedOut")}

\* mutation: the error of a supervisor is passed on to the accept loop, which
\* returns with it
TaskFinished_error_ends_loop ==
    /\ \E t \in 1..Len(tasks), outcome \in TaskResults :
         /\ tasks[t] = [tag |-> "Running"]
         /\ tasks' = [tasks EXCEPT ![t] = outcome]
         /\ logged(<<[op |-> IF outcome = Ok_unit THEN "debug" ELSE "error",
                      msg |-> IF outcome = Ok_unit THEN "finished successfully"
                              ELSE "finished with error",
                      task |-> t]>>)
         /\ listen_pc' = IF outcome = Ok_unit THEN listen_pc ELSE "returned"
    /\ UNCHANGED <<bind_location, no_delay, path_exists>>
    /\ UNCHANGED <<load_vars, sup_vars, start_vars>>

\* a spawned task: process_stream returns, and the task logs how it ended
TaskFinished ==
    /\ \E t \in 1..Len(tasks), outcome \in TaskResults :
         /\ tasks[t] = [tag |-> "Running"]
         /\ tasks' = [tasks EXCEPT ![t] = outcome]
         /\ logged(<<[op |-> IF outcome = Ok_unit THEN "debug" ELSE "error",
                      msg |-> IF outcome = Ok_unit THEN "finished successfully"
                              ELSE "finished with error",
                      task |-> t]>>)
    /\ UNCHANGED <<bind_location, no_delay, path_exists, listen_pc>>
    /\ UNCHANGED <<load_vars, sup_vars, start_vars>>

NextListen ==
    \/ TcpBind
    \/ UnixCheckPath \/ UnixRemoveFile \/ UnixBind
    \/ AcceptFailed \/ Accepted
    \/ TaskFinished

SpecListen == InitListen /\ [][NextListen]_vars

(***************************************************************************)
(* tcp_server.rs: start_tcp_server, called with each ServerConfig that     *)
(* load_configs returned, in order.  A panic ends the process.             *)
(***************************************************************************)
\* rules.map(ConfigSelection::unwrap_config).into_vec(): the rules, or the
\* panic of unwrap_config at the first GroupName
RECURSIVE unwrap_configs(_)
unwrap_configs(selections) ==
    IF selections = <<>> THEN Ok(<<>>)
    ELSE IF Head(selections).tag # "Config" THEN Panic(selections)
    ELSE prepend_val(Head(selections).config, unwrap_configs(Tail(selections)))

ServerPanic(msg) == [tag |-> "Panic", msg |-> msg]

\* start_tcp_server once the rules are unwrapped: the assertion, then the
\* selector made of a clone of the rules and the rule stack made of the rules
start_with_rules(config, rules) ==
    IF rules = <<>> THEN ServerPanic("assertion failed: !rules.is_empty()")
    ELSE [tag |-> "Started",
          bind_location |-> config.bind_location,
          protocol |-> config.protocol,
          client_proxy_selector |-> ClientProxySelector("listener", rules),
          rules_stack |-> <<rules>>]

start_tcp_server(config) ==
    IF ~unwrap_configs(config.rules.items).ok
    THEN ServerPanic(unwrap_configs(config.rules.items).msg)
    ELSE start_with_rules(config, unwrap_configs(config.rules.items).val)

\* the next returned ServerConfig is given to start_tcp_server
StartTcpServer ==
    /\ pc = "done" /\ result.tag = "Ok"
    /\ Len(started) < Len(result.value)
    /\ \A i \in 1..Len(started) : started[i].tag = "Started"
    /\ started' = Append(started, start_tcp_server(result.value[Len(started) + 1]))
    /\ UNCHANGED <<load_vars, sup_vars, listen_vars>>

NextStart == Next \/ StartTcpServer

SpecStart == Init /\ [][NextStart]_vars


(***************************************************************************)
(* What the claims speak of: the document given, and what was returned.    *)
(***************************************************************************)
MapSeq(s, F(_)) == [i \in 1..Len(s) |-> F(s[i])]

\* the concatenated top-level entries of the config files
Doc == IF args = <<>> THEN <<>> ELSE args[1] \o args[2]
IsServer(entry) == entry.kind = "ServerConfig"
ServerOf(entry) == entry.server_config
\* the ServerConfig entries as written, in document order
InputServers == MapSeq(SelectSeq(Doc, IsServer), ServerOf)

ReturnedOk == result.tag = "Ok"
FailedInvalidInput ==
    /\ result.tag = "Err" /\ result.kind = "InvalidInput"
    /\ "value" \notin DOMAIN result

AllConfig(selections) ==
    \A i \in 1..Len(selections.items) : selections.items[i].tag = "Config"
RulesExpanded(selections) ==
    \A i \in 1..Len(selections.items) :
        /\ selections.items[i].tag = "Config"
        /\ LET action == selections.items[i].config.action IN
           action.tag = "Allow" => AllConfig(action.client_proxies)

\* the targets of a wrapping protocol, in one sequence
TargetsOf(protocol) ==
    IF protocol.type = "Tls" THEN protocol.sni_targets \o protocol.default_target
    ELSE IF protocol.type = "Websocket" THEN protocol.targets.items
    ELSE <<>>

RECURSIVE ProtocolExpanded(_)
ProtocolExpanded(protocol) ==
    \A i \in 1..Len(TargetsOf(protocol)) :
        /\ RulesExpanded(TargetsOf(protocol)[i].override_rules)
        /\ ProtocolExpanded(TargetsOf(protocol)[i].protocol)

NoGroupNameRemains(server_config) ==
    RulesExpanded(server_config.rules) /\ ProtocolExpanded(server_config.protocol)

\* C1: in every config list load_configs returns, no GroupName remains: not in
\* the rules of a ServerConfig, not in the override_rules of a TLS or WebSocket
\* target at any depth, not in the client_proxies of an Allow rule of these lists.
C1_NoGroupNameRemains ==
    ReturnedOk =>
        \A i \in 1..Len(result.value) : NoGroupNameRemains(result.value[i])

\* a returned list whose TLS server was written with group names in its rules
\* and in the override_rules of its targets
C1_Witness ==
    /\ ReturnedOk
    /\ \E i \in 1..Len(result.value) :
          /\ InputServers[i].protocol.type = "Tls"
          /\ ~AllConfig(InputServers[i].rules)
          /\ ~ProtocolExpanded(InputServers[i].protocol)

\* the rule list expands to nothing: it is empty or made of references to
\* registered empty groups
ExpandsToNothing(selections) ==
    \A i \in 1..Len(selections.items) :
        /\ selections.items[i].tag = "GroupName"
        /\ selections.items[i].name \in DOMAIN rule_groups
        /\ rule_groups[selections.items[i].name] = <<>>

\* the single rule `allow any -> direct`
IsAllowAnyDirect(selections) ==
    /\ Len(selections.items) = 1
    /\ selections.items[1].tag = "Config"
    /\ LET rule == selections.items[1].config IN
          /\ rule.masks.items = <<"ANY">>
          /\ rule.action.tag = "Allow"
          /\ rule.action.override_address = "None"
          /\ rule.action.client_proxies.items =
                <<[tag |-> "Config",
                   config |-> [address |-> "UNSPECIFIED", protocol |-> "Direct",
                               transport |-> "Tcp", tcp_settings |-> FALSE,
                               quic_settings |-> FALSE]]>>

\* C2: every returned ServerConfig has at least one rule, and a rule list that
\* is empty after group expansion has become the single rule allow any -> direct.
C2_AtLeastOneRule ==
    ReturnedOk =>
        \A i \in 1..Len(result.value) :
            /\ Len(result.value[i].rules.items) >= 1
            /\ ExpandsToNothing(InputServers[i].rules)
                  => IsAllowAnyDirect(result.value[i].rules)

\* a returned ServerConfig whose rules were only references to empty groups
C2_Witness ==
    /\ ReturnedOk
    /\ \E i \in 1..Len(result.value) :
          /\ InputServers[i].rules.items # <<>>
          /\ ExpandsToNothing(InputServers[i].rules)
          /\ IsAllowAnyDirect(result.value[i].rules)

QuicCoherent(server_config) ==
    (server_config.transport = "Quic") <=> server_config.quic_settings

\* C3: a returned ServerConfig has transport QUIC exactly when it has
\* quic_settings, and a document holding a ServerConfig that violates either
\* direction makes load_configs fail with InvalidInput.
C3_QuicIffQuicSettings ==
    /\ ReturnedOk => \A i \in 1..Len(result.value) : QuicCoherent(result.value[i])
    /\ (pc = "done" /\ \E i \in 1..Len(InputServers) : ~QuicCoherent(InputServers[i]))
          => FailedInvalidInput

\* a QUIC server with quic_settings passed validation, and the next server,
\* with quic_settings and another transport, made load_configs fail
C3_Witness ==
    /\ pc = "done" /\ FailedInvalidInput
    /\ result.msg = "QUIC transport is not selected but QUIC settings specified"
    /\ idx = 2
    /\ server_configs[1].transport = "Quic" /\ server_configs[1].quic_settings

NonTcpCoherent(server_config) ==
    server_config.transport # "Tcp" =>
        ~server_config.tcp_settings /\ server_config.bind_location = "Address"

\* C4: a returned ServerConfig whose transport is not TCP has no tcp_settings
\* and binds to an Address; a ServerConfig with tcp_settings or a Path and a
\* non-TCP transport makes load_configs fail with InvalidInput.
C4_NonTcpHasNoTcpSettingsNoPath ==
    /\ ReturnedOk => \A i \in 1..Len(result.value) : NonTcpCoherent(result.value[i])
    /\ (pc = "done" /\ \E i \in 1..Len(InputServers) : ~NonTcpCoherent(InputServers[i]))
          => FailedInvalidInput

\* a UDP server on an Address passed validation, and the next server, QUIC with
\* quic_settings on a Unix socket path, made load_configs fail
C4_Witness ==
    /\ pc = "done" /\ FailedInvalidInput
    /\ result.msg = "Unix domain socket support only available for TCP transport"
    /\ idx = 2
    /\ server_configs[1].transport = "Udp"
    /\ server_configs[2].transport = "Quic"

\* entry i defines a group name that an earlier entry or a built-in defines
DefinesAgain(doc, i) ==
    \/ /\ doc[i].kind = "ClientConfigGroup"
       /\ \/ doc[i].client_group = "direct"
          \/ \E j \in 1..(i - 1) : /\ doc[j].kind = "ClientConfigGroup"
                                   /\ doc[j].client_group = doc[i].client_group
    \/ /\ doc[i].kind = "RuleConfigGroup"
       /\ \/ doc[i].rule_group \in {"allow-all-direct", "block-all"}
          \/ \E j \in 1..(i - 1) : /\ doc[j].kind = "RuleConfigGroup"
                                   /\ doc[j].rule_group = doc[i].rule_group

\* C5: when the concatenated documents define a client group name or a rule
\* group name that is already registered, by an earlier entry or as a built-in,
\* load_configs fails with InvalidInput and returns no ServerConfig.
C5_DuplicateGroupNameFails ==
    (pc = "done" /\ \E i \in 1..Len(Doc) : DefinesAgain(Doc, i)) => FailedInvalidInput

\* a user rule group defined twice, after a server entry, was reported
C5_Witness ==
    /\ pc = "done" /\ FailedInvalidInput
    /\ result.msg = "rule group already exists"
    /\ Len(server_configs) = 1
    /\ \E i \in 1..Len(Doc) : DefinesAgain(Doc, i)
                                /\ Doc[i].kind = "RuleConfigGroup"
                                /\ Doc[i].rule_group = "r1"

\* the names the document registers, with the built-in ones
DefinedClientGroups(doc) ==
    {"direct"} \cup
        { doc[i].client_group : i \in { j \in 1..Len(doc) : doc[j].kind = "ClientConfigGroup" } }
DefinedRuleGroups(doc) ==
    {"allow-all-direct", "block-all"} \cup
        { doc[i].rule_group : i \in { j \in 1..Len(doc) : doc[j].kind = "RuleConfigGroup" } }

GroupNamesIn(selections) ==
    { selections[i].name : i \in { j \in 1..Len(selections) : selections[j].tag = "GroupName" } }
InlineConfigsIn(selections) ==
    { selections[i].config : i \in { j \in 1..Len(selections) : selections[j].tag = "Config" } }
Range(seq) == { seq[i] : i \in 1..Len(seq) }

\* the rule lists reachable from a protocol: the override_rules of its targets
RECURSIVE OverrideRulesIn(_)
OverrideRulesIn(protocol) ==
    UNION { {target.override_rules.items} \cup OverrideRulesIn(target.protocol) :
            target \in Range(TargetsOf(protocol)) }
RuleListsOf(server_config) ==
    {server_config.rules.items} \cup OverrideRulesIn(server_config.protocol)

\* the rules of the groups the document defines under the name
RulesOfGroup(doc, name) ==
    UNION { Range(doc[i].rules.items) :
            i \in { j \in 1..Len(doc) : /\ doc[j].kind = "RuleConfigGroup"
                                        /\ doc[j].rule_group = name } }

\* the rules reachable from the server: inline, or of a referenced rule group
ReachableRules(doc, server_config) ==
    UNION { InlineConfigsIn(list) \cup
                UNION { RulesOfGroup(doc, name) : name \in GroupNamesIn(list) } :
            list \in RuleListsOf(server_config) }

NamesUnknownRuleGroup(doc, server_config) ==
    \E list \in RuleListsOf(server_config) :
        GroupNamesIn(list) \ DefinedRuleGroups(doc) # {}
NamesUnknownClientGroup(doc, server_config) ==
    \E rule \in ReachableRules(doc, server_config) :
        /\ rule.action.tag = "Allow"
        /\ GroupNamesIn(rule.action.client_proxies.items) \ DefinedClientGroups(doc) # {}

\* C6: when a GroupName reachable from a ServerConfig (its rules, the
\* override_rules of a nested TLS or WebSocket target, the client_proxies of an
\* Allow rule of these) names a group that is not registered in the map of
\* its kind, load_configs fails with InvalidInput.
C6_UnknownGroupNameFails ==
    (pc = "done" /\ \E i \in 1..Len(InputServers) :
                        \/ NamesUnknownRuleGroup(Doc, InputServers[i])
                        \/ NamesUnknownClientGroup(Doc, InputServers[i]))
        => FailedInvalidInput

\* the rules of the server name registered rule groups only, one of which has
\* an Allow rule that names a client group nobody defined: reported
C6_Witness ==
    /\ pc = "done" /\ FailedInvalidInput
    /\ result.msg = "No such client group"
    /\ Len(InputServers) = 1
    /\ AllConfig(InputServers[1].rules) = FALSE
    /\ ~NamesUnknownRuleGroup(Doc, InputServers[1])
    /\ NamesUnknownClientGroup(Doc, InputServers[1])

(***************************************************************************)
(* In-place expansion, stated by positions: selection i of the list as     *)
(* written starts in the expanded list right after the configs of the      *)
(* selections before it, and takes one place (inline) or as many places    *)
(* as its group has configs, in the group's order.                         *)
(***************************************************************************)
Width(selection, groups) ==
    IF selection.tag = "Config" THEN 1
    ELSE IF selection.name \in DOMAIN groups THEN Len(groups[selection.name])
    ELSE 0

RECURSIVE Offset(_, _, _)
Offset(written, i, groups) ==
    IF i = 1 THEN 0
    ELSE Offset(written, i - 1, groups) + Width(written[i - 1], groups)

ExpandedInPlace(written, expanded, groups, Same(_, _)) ==
    /\ GroupNamesIn(written) \subseteq DOMAIN groups
    /\ Len(expanded) = Offset(written, Len(written) + 1, groups)
    /\ \A i \in 1..Len(written) :
          LET at == Offset(written, i, groups) IN
          IF written[i].tag = "Config"
          THEN /\ expanded[at + 1].tag = "Config"
               /\ Same(written[i].config, expanded[at + 1].config)
          ELSE \A k \in 1..Len(groups[written[i].name]) :
                  /\ expanded[at + k].tag = "Config"
                  /\ Same(groups[written[i].name][k], expanded[at + k].config)

SameClient(written, expanded) == written = expanded
\* the rule kept its masks, its action and its override_address, and its
\* client_proxies are those written, expanded in place
SameRule(written, expanded) ==
    /\ written.masks = expanded.masks
    /\ written.action.tag = expanded.action.tag
    /\ written.action.tag = "Allow" =>
          /\ written.action.override_address = expanded.action.override_address
          /\ ExpandedInPlace(written.action.client_proxies.items,
                             expanded.action.client_proxies.items,
                             client_groups, SameClient)

RulesInPlace(written, expanded) ==
    ExpandedInPlace(written.items, expanded.items, rule_groups, SameRule)

RECURSIVE ProtocolInPlace(_, _)
ProtocolInPlace(written, expanded) ==
    /\ written.type = expanded.type
    /\ Len(TargetsOf(written)) = Len(TargetsOf(expanded))
    /\ \A i \in 1..Len(TargetsOf(written)) :
          /\ RulesInPlace(TargetsOf(written)[i].override_rules,
                          TargetsOf(expanded)[i].override_rules)
          /\ ProtocolInPlace(TargetsOf(written)[i].protocol,
                             TargetsOf(expanded)[i].protocol)

\* the document of the example: g1 = [one Direct ClientConfig],
\* r1 = [allow any -> g1], a ServerConfig with rules [r1]
ExampleDoc ==
    <<[kind |-> "ClientConfigGroup", client_group |-> "g1",
       client_proxies |-> One(ClientConfig_default)],
      [kind |-> "RuleConfigGroup", rule_group |-> "r1",
       rules |-> One([masks |-> One("ANY"),
                      action |-> [tag |-> "Allow", override_address |-> "None",
                                  client_proxies |-> One(GroupName("g1"))]])],
      ServerEntry(TcpServer(Socks, Some(<<GroupName("r1")>>)))>>

\* C7: group expansion is in place and keeps the order: each GroupName is
\* replaced at its position by the configs of its group in the group's order,
\* inline configs keep their value and relative position; so for rules, for
\* override_rules at every depth and for client_proxies.  The example document
\* validates to the single rule allow any -> inline default ClientConfig.
C7_ExpansionInPlace ==
    ReturnedOk =>
        /\ \A i \in 1..Len(result.value) :
              /\ ~ExpandsToNothing(InputServers[i].rules)
                    => RulesInPlace(InputServers[i].rules, result.value[i].rules)
              /\ ProtocolInPlace(InputServers[i].protocol, result.value[i].protocol)
        /\ Doc = ExampleDoc => IsAllowAnyDirect(result.value[1].rules)

\* a returned server whose rules were written as an inline rule followed by two
\* group names, the first of a group of two rules
C7_Witness ==
    /\ ReturnedOk
    /\ \E i \in 1..Len(result.value) :
          /\ Len(InputServers[i].rules.items) = 3
          /\ InputServers[i].rules.items[1].tag = "Config"
          /\ InputServers[i].rules.items[2].tag = "GroupName"
          /\ Len(rule_groups[InputServers[i].rules.items[2].name]) = 2
          /\ Len(result.value[i].rules.items) = 4

(***************************************************************************)
(* The expanded form of a config: what its lists iterate over, without the *)
(* variant (One, Some, None, Unspecified) that holds them.                 *)
(***************************************************************************)
FormOfRule(rule) ==
    IF rule.action.tag = "Allow"
    THEN [masks |-> rule.masks.items, action |-> "Allow",
          override_address |-> rule.action.override_address,
          client_proxies |-> rule.action.client_proxies.items]
    ELSE [masks |-> rule.masks.items, action |-> "Block"]
FormOfSelection(selection) ==
    IF selection.tag = "Config" THEN [config |-> FormOfRule(selection.config)]
    ELSE [group |-> selection.name]
FormOfRules(selections) == MapSeq(selections.items, FormOfSelection)

RECURSIVE FormOfProtocol(_)
FormOfProtocol(protocol) ==
    [type |-> protocol.type,
     targets |-> [i \in 1..Len(TargetsOf(protocol)) |->
                     [protocol |-> FormOfProtocol(TargetsOf(protocol)[i].protocol),
                      override_rules |-> FormOfRules(TargetsOf(protocol)[i].override_rules)]],
     default_targets |-> IF protocol.type = "Tls" THEN Len(protocol.default_target) ELSE 0]

ExpandedForm(server_config) ==
    [bind_location |-> server_config.bind_location,
     transport |-> server_config.transport,
     tcp_settings |-> server_config.tcp_settings,
     quic_settings |-> server_config.quic_settings,
     rules |-> FormOfRules(server_config.rules),
     protocol |-> FormOfProtocol(server_config.protocol)]

\* C8: validation is idempotent: the pass run again, with the same group maps,
\* on a ServerConfig that passed validation succeeds and yields the same
\* expanded form.
C8_ValidationIdempotent ==
    ReturnedOk =>
        \A i \in 1..Len(result.value) :
            LET again == validate_server_config(result.value[i], client_groups,
                                                rule_groups)
            IN  /\ again.ok
                /\ ExpandedForm(again.val) = ExpandedForm(result.value[i])

\* a returned TLS server that the first pass changed (group names expanded)
C8_Witness ==
    /\ ReturnedOk
    /\ \E i \in 1..Len(result.value) :
          /\ result.value[i].protocol.type = "Tls"
          /\ ExpandedForm(result.value[i]) # ExpandedForm(InputServers[i])
          /\ validate_server_config(result.value[i], client_groups, rule_groups).ok

ClientsValid(selections) ==
    \A i \in 1..Len(selections.items) :
        LET selection == selections.items[i] IN
        (selection.tag = "Config" /\ selection.config.action.tag = "Allow") =>
            \A client \in InlineConfigsIn(selection.config.action.client_proxies.items) :
                /\ client.tcp_settings => client.transport = "Tcp"
                /\ client.quic_settings => client.transport = "Quic"

\* the config went through the whole of validate_server_config
Completed(server_config) ==
    /\ QuicCoherent(server_config) /\ NonTcpCoherent(server_config)
    /\ Len(server_config.rules.items) >= 1
    /\ NoGroupNameRemains(server_config)
    /\ \A list \in RuleListsOf(server_config) : ClientsValid([items |-> list])

\* C9: config loading is all or nothing: load_configs returns an error, which
\* carries no ServerConfig, or the list of all ServerConfigs of the documents,
\* each validated and expanded to the end; nothing is returned before the end.
C9_AllOrNothing ==
    /\ result.tag \in {"Pending", "Ok", "Err"}
    /\ (result.tag = "Pending") <=> (pc # "done")
    /\ result.tag = "Err" => FailedInvalidInput
    /\ ReturnedOk =>
          /\ unread = <<>> /\ all_configs = <<>>
          /\ result.value = server_configs
          /\ Len(result.value) = Len(InputServers)
          /\ \A i \in 1..Len(result.value) : Completed(result.value[i])

\* load_configs failed on its second ServerConfig after it had validated and
\* expanded the first one in place: the vector is partly validated, and is
\* not returned
C9_Witness ==
    /\ result.tag = "Err" /\ pc = "done"
    /\ idx = 2 /\ Len(server_configs) = 2
    /\ server_configs[1] # InputServers[1]
    /\ Completed(server_configs[1])
    /\ ~Completed(server_configs[2])

(***************************************************************************)
(* What the claims on the supervisor speak of.                             *)
(***************************************************************************)
\* the calls of judge made so far
Judged == { log[i] : i \in { j \in 1..Len(log) : log[j].op = "judge" } }

IsTcpForward == setup_result # <<>> /\ setup_result.variant = "TcpForward"
CarriesOverride == IsTcpForward /\ is_one(setup_result.override_proxy_provider)

\* C10: for a TcpForward, every call of judge is made on the selector of
\* override_proxy_provider when the setup result carries one, and on the
\* listener's selector when it carries none; with an override the listener's
\* selector is not consulted at all, neither by judge nor by default_decision.
C10_OverrideSelectorJudges ==
    IsTcpForward =>
        /\ \A e \in Judged :
               /\ e.location = setup_result.remote_location
               /\ e.selector =
                      IF is_one(setup_result.override_proxy_provider)
                      THEN setup_result.override_proxy_provider.item.id
                      ELSE client_proxy_selector.id
        /\ sup_pc \notin {"setup_server_stream", "TcpForward"} => Judged # {}
        /\ CarriesOverride =>
               \A i \in 1..Len(log) :
                   "selector" \in DOMAIN log[i] =>
                       log[i].selector # client_proxy_selector.id

\* an override that blocks has judged a target the listener's selector allows,
\* and the stream was closed without a dial
C10_Witness ==
    /\ CarriesOverride
    /\ sup_pc = "returned" /\ ret = Ok_unit
    /\ judge(setup_result.override_proxy_provider.item,
             setup_result.remote_location).tag = "Block"
    /\ judge(client_proxy_selector, setup_result.remote_location).tag = "Allow"
    /\ \E e \in Judged : e.selector = "override"
    /\ \A i \in 1..Len(log) : log[i].op # "connect"

\* the selectors consulted so far, for a judgment or for the default decision
Consulted ==
    { log[i].selector : i \in { j \in 1..Len(log) : "selector" \in DOMAIN log[j] } }

IsUdpForward ==
    /\ setup_result # <<>>
    /\ setup_result.variant \in {"BidirectionalUdpForward", "MultidirectionalUdpForward"}

\* C11: a connection whose handshake went through a wrapper target with
\* override_rules is decided by the selector of these rules, whatever the
\* variant of the setup result: for a BidirectionalUdpForward or a
\* MultidirectionalUdpForward under such a wrapper, the listener's selector
\* is not consulted, the override selector is.
C11_OverrideDecidesUdpForward ==
    (IsUdpForward /\ is_one(wrapper_override)) =>
        /\ client_proxy_selector.id \notin Consulted
        /\ sup_pc = "returned" => unwrap(wrapper_override).id \in Consulted

(***************************************************************************)
(* The calls the supervisor has made, read from its log.                   *)
(***************************************************************************)
Calls(op) == { i \in 1..Len(log) : log[i].op = op }
CallsOn(op, stream) == { i \in Calls(op) : log[i].stream = stream }
Called(op) == Calls(op) # {}
HasReturned == sup_pc = "returned"
Last == log[Len(log)]

\* the selector has judged the target of a TcpForward as Block
BlockedTcpForward ==
    /\ IsTcpForward
    /\ \E i \in Calls("judge") : log[i].result.tag = "Block"

\* C12: when the selector judges the target of a TcpForward as Block, the
\* supervisor makes no upstream connection attempt, writes nothing to the
\* origin (nor anywhere), does not copy, shuts the origin stream down and
\* returns Ok: the shutdown is the one call it makes after the judgment.
C12_BlockClosesWithoutDial ==
    BlockedTcpForward =>
        /\ ~Called("connect") /\ ~Called("write_all") /\ ~Called("copy_bidirectional")
        /\ CallsOn("shutdown", "client_stream") = {}
        /\ IF HasReturned
           THEN /\ ret = Ok_unit
                /\ CallsOn("shutdown", "server_stream") = {Len(log)}
                /\ log[Len(log) - 1].op = "judge"
           ELSE /\ sup_pc = "client_stream"
                /\ Last.op = "judge"

\* the listener's selector has blocked a TcpForward that carries a response
\* for the origin, and the supervisor has returned
C12_Witness ==
    /\ BlockedTcpForward /\ HasReturned
    /\ ~CarriesOverride
    /\ setup_result.connection_success_response # Option_None
    /\ ret = Ok_unit
    /\ Last = [op |-> "shutdown", stream |-> "server_stream"]

\* call i of the log was the given call and succeeded
Succeeded(i, op) == log[i].op = op /\ log[i].result = Ok_unit
WroteTo(i, stream) ==
    /\ log[i].op = "write_all" /\ log[i].stream = stream
    /\ log[i].result = Ok_unit

\* before call i: the dial succeeded, then the response, if there is one, was
\* written to the origin, then the initial data, if there is any, upstream
DialedBefore(i) == \E j \in 1..(i - 1) : Succeeded(j, "connect")
RespondedBefore(i) ==
    setup_result.connection_success_response # Option_None =>
        \E j \in 1..(i - 1) :
            /\ WroteTo(j, "server_stream") /\ DialedBefore(j)
            /\ log[j].data = setup_result.connection_success_response[1]
DeliveredBefore(i) ==
    setup_result.initial_remote_data # Option_None =>
        \E j \in 1..(i - 1) :
            /\ WroteTo(j, "client_stream") /\ DialedBefore(j) /\ RespondedBefore(j)
            /\ log[j].data = setup_result.initial_remote_data[1]

\* C13: on the Allow path of a TcpForward the steps come in this order, each
\* once and only after the one before succeeded: the upstream dial, the write
\* of connection_success_response (if any) to the origin, the write of
\* initial_remote_data (if any) to the upstream, the bidirectional copy, whose
\* client side is flushed first exactly when initial data was written.
C13_DialRespondDeliverCopy ==
    IsTcpForward =>
        /\ \A i \in CallsOn("write_all", "server_stream") : DialedBefore(i)
        /\ \A i \in CallsOn("write_all", "client_stream") :
               DialedBefore(i) /\ RespondedBefore(i)
        /\ \A i \in Calls("copy_bidirectional") :
               /\ DialedBefore(i) /\ RespondedBefore(i) /\ DeliveredBefore(i)
               /\ log[i].b_need_initial_flush =
                      (setup_result.initial_remote_data # Option_None)
               /\ log[i].a_need_initial_flush = setup_result.need_initial_flush
        /\ \A op \in {"connect", "copy_bidirectional"} : Cardinality(Calls(op)) <= 1
        /\ \A stream \in {"server_stream", "client_stream"} :
               Cardinality(CallsOn("write_all", stream)) <= 1

\* a TcpForward with a response and initial data has gone through the four
\* steps, one after the other
C13_Witness ==
    /\ IsTcpForward /\ Len(log) >= 6
    /\ Succeeded(3, "connect")
    /\ WroteTo(4, "server_stream")
    /\ WroteTo(5, "client_stream")
    /\ log[6].op = "copy_bidirectional" /\ log[6].b_need_initial_flush

\* the calls of setup_client_stream: the judgment and the dial
DialCalls == Calls("judge") \cup Calls("connect")
FailedDial == { i \in DialCalls : log[i].result.tag = "Err" }

\* C14: when judge or connect inside setup_client_stream fails with an
\* error, the supervisor shuts the origin stream down as its next and last
\* call, writes no connection_success_response (nor anything), does not copy,
\* and returns an error of the kind of the error of the dial.
C14_DialErrorKeepsKind ==
    (IsTcpForward /\ FailedDial # {}) =>
        /\ ~Called("write_all") /\ ~Called("copy_bidirectional")
        /\ \A i \in FailedDial :
               IF HasReturned
               THEN /\ ret = io_Error(log[i].result.kind)
                    /\ i = Len(log) - 1
                    /\ Last = [op |-> "shutdown", stream |-> "server_stream"]
               ELSE i = Len(log) /\ sup_pc = "client_stream"

\* the selector allowed the target, the connect was refused, and the
\* supervisor has returned ConnectionRefused
C14_Witness ==
    /\ IsTcpForward /\ HasReturned
    /\ setup_result.connection_success_response # Option_None
    /\ \E i \in Calls("connect") : log[i].result = io_Error("ConnectionRefused")
    /\ ret = io_Error("ConnectionRefused")

\* setup_server_stream gave no setup result: it failed, or did not end in time
HandshakeFailed == Called("setup_server_stream") /\ log[1].result # Ok_unit

\* C15: when setup_server_stream does not end within its 60 seconds, the
\* supervisor returns an error of kind TimedOut; when it fails, an error of
\* the kind of its error.  In both cases the supervisor makes no other call:
\* no judgment, no dial, no write; the origin stream, which was moved into
\* setup_server_stream and never came back, is closed with it.
C15_HandshakeTimeoutOrError ==
    HandshakeFailed =>
        /\ HasReturned
        /\ Len(log) = 1
        /\ setup_result = <<>>
        /\ log[1].result = Elapsed => ret = io_Error("TimedOut")
        /\ log[1].result # Elapsed => ret = io_Error(log[1].result.kind)

\* the handshake did not end in time, and TimedOut was returned
C15_Witness ==
    /\ HandshakeFailed /\ log[1].result = Elapsed
    /\ HasReturned /\ ret = io_Error("TimedOut")

\* the calls that did not end within their timeout
TimedOutCalls ==
    { i \in 1..Len(log) : "result" \in DOMAIN log[i] /\ log[i].result = Elapsed }
ShutDownAfter(i, stream) == \E j \in CallsOn("shutdown", stream) : j > i

\* C16 as stated: after either timeout the supervisor has shut the origin
\* stream down when it returns TimedOut.
C16_BothTimeoutsHalfClose ==
    \A i \in TimedOutCalls :
        HasReturned =>
            /\ ret = io_Error("TimedOut")
            /\ ShutDownAfter(i, "server_stream")

\* C16, amended: both timeouts make the supervisor return TimedOut, with no
\* response written and no copy.  After the timeout of the client setup the
\* shutdown of the origin stream is the supervisor's next and last call; after
\* the timeout of the server setup it makes no call at all: it does not hold
\* the stream, which is closed with the handshake it was moved into.
C16_TimeoutsReturnTimedOut ==
    \A i \in TimedOutCalls :
        /\ ~Called("write_all") /\ ~Called("copy_bidirectional")
        /\ IF log[i].op = "setup_server_stream"
           THEN /\ HasReturned /\ ret = io_Error("TimedOut")
                /\ Len(log) = 1 /\ setup_result = <<>>
           ELSE /\ log[i].op \in {"judge", "connect"} /\ IsTcpForward
                /\ IF HasReturned
                   THEN /\ ret = io_Error("TimedOut")
                        /\ i = Len(log) - 1
                        /\ Last = [op |-> "shutdown", stream |-> "server_stream"]
                   ELSE i = Len(log) /\ sup_pc = "client_stream"

\* the dial did not end in time: the origin was shut down, TimedOut returned
C16_Witness ==
    /\ HasReturned /\ ret = io_Error("TimedOut")
    /\ \E i \in TimedOutCalls : log[i].op = "connect"
    /\ Last = [op |-> "shutdown", stream |-> "server_stream"]

\* the streams the supervisor holds: the origin stream once it has come back
\* in a setup result, the upstream stream once the dial has given one
OwnsServerStream == setup_result # <<>>
OwnsClientStream ==
    /\ IsTcpForward
    /\ client_stream # <<>> /\ client_stream.tag = "Some"

\* C17: on every return of the supervisor a shutdown has been attempted on
\* each stream it still holds: the origin stream whenever the handshake gave a
\* setup result, the upstream stream whenever the dial gave one.
C17_ShutdownBeforeEveryReturn ==
    HasReturned =>
        /\ OwnsServerStream => CallsOn("shutdown", "server_stream") # {}
        /\ OwnsClientStream => CallsOn("shutdown", "client_stream") # {}

IsMultidirectional ==
    setup_result # <<>> /\ setup_result.variant = "MultidirectionalUdpForward"

\* C18: for a MultidirectionalUdpForward the supervisor asks the selector for
\* its default decision, once, and never calls judge.  On Block it logs a
\* warning and returns Ok, with no UDP socket configured and no copy; on Allow
\* it configures one UDP socket, which it does not connect, and enters the
\* multidirectional copy once the socket is there.  No rule is matched against
\* a target, so a Block rule for some targets does not stop such a flow.
C18_MultidirectionalDefaultDecision ==
    IsMultidirectional =>
        /\ ~Called("judge") /\ ~Called("udp_connect")
        /\ ~Called("resolve_single_address")
        /\ Len(log) >= 2 =>
             /\ Calls("default_decision") = {2}
             /\ log[2].result = default_decision(client_proxy_selector)
             /\ IF log[2].result.tag = "Block"
                THEN /\ log[3] = [op |-> "warn"] /\ Len(log) = 3
                     /\ HasReturned /\ ret = Ok_unit
                ELSE /\ Calls("configure_udp_socket") = {3}
                     /\ log[3].client_proxy = log[2].result.client_proxy
                     /\ Calls("warn") = {}
                     /\ \A i \in Calls("copy_multidirectional_message") :
                            /\ i = 4 /\ log[3].result = Ok_unit
                            /\ ~log[i].b_need_initial_flush
                            /\ log[i].a_need_initial_flush =
                                   setup_result.need_initial_flush
                     /\ log[3].result # Ok_unit => HasReturned /\ ret = log[3].result
                     /\ (log[3].result = Ok_unit /\ HasReturned) =>
                            Len(log) = 4 /\ ret = log[4].result

\* a listener whose first rule blocks 10.0.0.0/8 has let a multidirectional
\* flow into the copy
C18_Witness ==
    /\ IsMultidirectional /\ HasReturned
    /\ client_proxy_selector.rules = BlockTen
    /\ judge(client_proxy_selector, "10.1.2.3:22").tag = "Block"
    /\ Called("copy_multidirectional_message")

IsBidirectionalUdp ==
    setup_result # <<>> /\ setup_result.variant = "BidirectionalUdpForward"

\* the calls of the BidirectionalUdpForward arm, in the order of the code
UdpSteps ==
    <<"judge", "resolve_single_address", "configure_udp_socket", "udp_connect",
      "copy_bidirectional_message">>

\* C19: for a BidirectionalUdpForward the supervisor judges the target first.
\* On Block it returns Ok and does nothing else.  On Allow it resolves the
\* remote_location of the decision, then configures the UDP socket of the
\* decision's client proxy, then connects it to that location, then copies:
\* each step once, and only when every step before it succeeded; the error of
\* the first step that fails is what the supervisor returns.
C19_BidirectionalUdpSteps ==
    IsBidirectionalUdp =>
        /\ Len(log) <= 1 + Len(UdpSteps)
        /\ \A i \in 2..Len(log) :
             /\ log[i].op = UdpSteps[i - 1]
             /\ i = 2 => log[i].location = setup_result.remote_location
             /\ i = 3 => /\ log[2].result.tag = "Allow"
                         /\ log[i].location = log[2].result.remote_location
             /\ i = 4 => log[i].client_proxy = log[2].result.client_proxy
             /\ i = 5 => log[i].location = log[2].result.remote_location
             /\ i > 3 => log[i - 1].result = Ok_unit
        /\ (Len(log) >= 2 /\ log[2].result.tag = "Block") =>
               HasReturned /\ ret = Ok_unit /\ Len(log) = 2
        /\ (Len(log) >= 2 /\ Last.result.tag = "Err") =>
               HasReturned /\ ret = Last.result
        /\ HasReturned =>
               \/ Last.result.tag \in {"Block", "Err"}
               \/ Len(log) = 6 /\ ret = Last.result

\* a target allowed with an override address went through all the steps, and
\* the copy was entered
C19_Witness ==
    /\ IsBidirectionalUdp /\ HasReturned
    /\ Len(log) = 6
    /\ log[2].result.remote_location # setup_result.remote_location
    /\ log[5].result = Ok_unit
    /\ log[6].op = "copy_bidirectional_message"

(***************************************************************************)
(* What the claims on the listeners speak of.                              *)
(***************************************************************************)
Bound == \E i \in 1..Len(listen_log) :
             listen_log[i].op = "bind" /\ listen_log[i].result = Ok_unit
FailedAccepts == { i \in Accepts : listen_log[i].result # Ok_unit }
GoodAccepts == { i \in Accepts : listen_log[i].result = Ok_unit }
Spawns == { i \in 1..Len(listen_log) : listen_log[i].op = "spawn" }

\* the spawn that follows accept i, before any other accept
SpawnAfter(i) ==
    { j \in Spawns : j > i /\ \A k \in Accepts : ~(i < k /\ k < j) }

\* C20: in the TCP and in the Unix-domain accept loop a failed accept is
\* logged and the loop is at accept again: once bound, the listener never
\* leaves the loop, however many accepts fail; and every accept that
\* succeeds, also after failed ones, spawns one supervisor.
C20_AcceptFailuresRetried ==
    /\ listen_pc # "returned"
    /\ Bound => listen_pc = "accept"
    /\ \A i \in FailedAccepts :
           /\ listen_log[i + 1] = [op |-> "error", msg |-> "Accept failed"]
           /\ SpawnAfter(i) = {}
    /\ \A i \in GoodAccepts : Cardinality(SpawnAfter(i)) = 1
    /\ Len(tasks) = Cardinality(GoodAccepts)

\* a Unix-domain listener whose first two accepts failed has accepted a
\* stream and spawned its supervisor, and is at accept again
C20_Witness ==
    /\ bind_location = "Path" /\ listen_pc = "accept"
    /\ Cardinality(FailedAccepts) = 2
    /\ \E i \in GoodAccepts :
           /\ \A k \in FailedAccepts : k < i
           /\ SpawnAfter(i) # {}
    /\ Len(tasks) = 1

Running == [tag |-> "Running"]
\* what a step added to the log of the listener
NewlyLogged == SubSeq(listen_log', Len(listen_log) + 1, Len(listen_log'))
AcceptedInStep ==
    /\ NewlyLogged # <<>>
    /\ NewlyLogged[1] = [op |-> "accept", result |-> Ok_unit]
EndedInStep(t) == tasks[t] = Running /\ tasks'[t] # Running

\* C21: errors of a connection stay with it.  A step that accepts a stream
\* adds one supervisor task, running, and leaves the loop at accept: the loop
\* does not wait for the task; no other step adds a task.  A supervisor that
\* ends, with Ok or with an error, is logged and nothing more: the loop stays
\* where it is, and no other supervisor is touched; a result once given never
\* changes, whatever the order in which supervisors end.
C21_SupervisorsIsolated ==
    [][/\ Len(tasks') = Len(tasks) + (IF AcceptedInStep THEN 1 ELSE 0)
       /\ AcceptedInStep =>
              tasks'[Len(tasks')] = Running /\ listen_pc' = "accept"
       /\ listen_pc = "accept" => listen_pc' = "accept"
       /\ \A t \in 1..Len(tasks) :
              /\ tasks[t] # Running => tasks'[t] = tasks[t]
              /\ EndedInStep(t) =>
                     /\ listen_pc' = listen_pc
                     /\ \A u \in 1..Len(tasks) : u # t => tasks'[u] = tasks[u]
                     /\ Len(NewlyLogged) = 1 /\ NewlyLogged[1].task = t
                     /\ NewlyLogged[1].op =
                            IF tasks'[t] = Ok_unit THEN "debug" ELSE "error"]_vars

\* three supervisors of one listener: the second ended with an error while
\* the first was running, the first ended with Ok after that, the third was
\* spawned after the error and is running, and the loop is at accept
C21_Witness ==
    /\ listen_pc = "accept" /\ Len(tasks) = 3
    /\ tasks[1] = Ok_unit /\ tasks[2].tag = "Err" /\ tasks[3] = Running
    /\ \E i, j, k \in 1..Len(listen_log) :
          /\ i < j /\ i < k
          /\ listen_log[i] = [op |-> "error", msg |-> "finished with error", task |-> 2]
          /\ listen_log[j] = [op |-> "debug", msg |-> "finished successfully", task |-> 1]
          /\ listen_log[k] = [op |-> "spawn", task |-> 3]

\* C22: once the bidirectional copy of a TcpForward has returned, with Ok or
\* with an error, the supervisor does not return before it has shut down the
\* origin stream and the upstream stream; these shutdowns, whose results it
\* does not look at, are its last calls, and what it returns is the result of
\* the copy.
C22_ShutdownBothAfterCopy ==
    \A i \in Calls("copy_bidirectional") :
        IF HasReturned
        THEN /\ Len(log) = i + 2
             /\ { log[i + 1], log[i + 2] } =
                    { [op |-> "shutdown", stream |-> "server_stream"],
                      [op |-> "shutdown", stream |-> "client_stream"] }
             /\ ret = log[i].result
        ELSE /\ Len(log) = i
             /\ sup_pc = "shutdown" /\ ret = [tag |-> "Pending"]
             /\ copy_result = log[i].result

\* the copy failed, both streams were shut down after it, and its error is
\* what the supervisor returned
C22_Witness ==
    /\ HasReturned
    /\ \E i \in Calls("copy_bidirectional") :
          /\ log[i].result = io_Error("ConnectionRefused")
          /\ ret = log[i].result
          /\ CallsOn("shutdown", "server_stream") = {i + 1}
          /\ CallsOn("shutdown", "client_stream") = {i + 2}

\* the supervisor is at an await that has no timeout and is not a copy: a
\* write_all, a shutdown, or the judge, resolve or connect of the UDP arm
UntimedAwait ==
    /\ sup_pc \in {"client_stream", "initial_remote_data", "shutdown",
                   "BidirectionalUdpForward", "resolve_single_address",
                   "udp_connect"}
    /\ ~AtCopyBidirectional

ReturnedAndReleased == HasReturned /\ held_streams = {}

\* C23 as stated: when armed timeouts fire and copies end, every supervisor
\* eventually returns and releases its streams, and no step before the copy
\* keeps it waiting for ever.
C23_AlwaysReturns == <>ReturnedAndReleased

\* C23: when armed timeouts fire and copies end, a supervisor eventually
\* returns and releases its streams unless it waits for ever at an await that
\* has no timeout; the handshake and the judge and dial of a TcpForward never
\* keep it waiting for ever.
C23_ReturnsUnlessUntimedAwait ==
    <>ReturnedAndReleased \/ <>[]UntimedAwait

\* the dial of a TcpForward ran into its timeout and the supervisor has
\* returned, holding no stream
C23_Witness ==
    /\ ReturnedAndReleased
    /\ \E i \in Calls("connect") : log[i].result = Elapsed
    /\ ret = io_Error("TimedOut")

\* the successful writes made on a stream before call i
WrittenBefore(stream, i) ==
    { j \in CallsOn("write_all", stream) : j < i /\ log[j].result = Ok_unit }

\* C24: the client-side flag given to copy_bidirectional is true exactly when
\* the setup result carried initial_remote_data, which has then been written
\* to the upstream; the server-side flag is the need_initial_flush of the
\* setup result, whether or not a connection_success_response was written.
C24_InitialFlushFlags ==
    \A i \in Calls("copy_bidirectional") :
        /\ log[i].b_need_initial_flush \in BOOLEAN
        /\ log[i].b_need_initial_flush <=>
               setup_result.initial_remote_data # Option_None
        /\ log[i].b_need_initial_flush <=>
               \E j \in WrittenBefore("client_stream", i) :
                   log[j].data = setup_result.initial_remote_data[1]
        /\ ~log[i].b_need_initial_flush => CallsOn("write_all", "client_stream") = {}
        /\ log[i].a_need_initial_flush = setup_result.need_initial_flush

\* a copy after a response was written for a handler that asks for no flush,
\* with initial data written to the upstream
C24_Witness ==
    /\ \E i \in Calls("copy_bidirectional") :
          /\ WrittenBefore("server_stream", i) # {}
          /\ ~log[i].a_need_initial_flush
          /\ log[i].b_need_initial_flush
          /\ WrittenBefore("client_stream", i) # {}
    /\ HasReturned

\* the other case of C24: no response, a handler that asks for the flush, no
\* initial data
C24_WitnessNoData ==
    \E i \in Calls("copy_bidirectional") :
        /\ CallsOn("write_all", "server_stream") = {}
        /\ log[i].a_need_initial_flush
        /\ ~log[i].b_need_initial_flush

ListenCalls(op) == { i \in 1..Len(listen_log) : listen_log[i].op = op }
Warning == [op |-> "println", msg |-> "WARNING: replacing file at socket path"]
PastRemoval == listen_pc \notin {"start", "remove_file"}

\* C25: the Unix listener looks at the socket path first.  When something is
\* there it prints the warning, then calls remove_file, and whatever
\* remove_file returns the bind is the next call; when nothing is there the
\* bind is the next call, and neither a warning nor a removal is ever made.
C25_UnixPathReplacedBeforeBind ==
    bind_location = "Path" =>
        /\ listen_pc # "start" =>
               /\ listen_log[1].op = "symlink_metadata"
               /\ listen_log[1].result = Ok_unit <=>
                      \/ path_exists
                      \/ \E r \in ListenCalls("remove_file") :
                             listen_log[r].result = Ok_unit
        /\ listen_pc # "start" /\ listen_log[1].result = Ok_unit =>
               /\ listen_log[2] = Warning
               /\ IF listen_pc = "remove_file"
                  THEN Len(listen_log) = 2
                  ELSE /\ ListenCalls("remove_file") = {3}
                       /\ IF listen_pc = "bind"
                          THEN Len(listen_log) = 3
                          ELSE ListenCalls("bind") = {4}
        /\ listen_pc # "start" /\ listen_log[1].result # Ok_unit =>
               /\ ListenCalls("println") = {}
               /\ ListenCalls("remove_file") = {}
               /\ IF listen_pc = "bind"
                  THEN Len(listen_log) = 1
                  ELSE ListenCalls("bind") = {2}
        /\ listen_pc = "start" => listen_log = <<>>

\* a file was at the path, it could not be removed, and the bind was made
\* all the same (and failed)
C25_Witness ==
    /\ bind_location = "Path"
    /\ Len(listen_log) = 4
    /\ listen_log[1] = [op |-> "symlink_metadata", result |-> Ok_unit]
    /\ listen_log[2] = Warning
    /\ listen_log[3].op = "remove_file" /\ listen_log[3].result # Ok_unit
    /\ listen_log[4].op = "bind"
    /\ listen_pc = "panicked"

\* nothing was at the path: the listener is bound after the one look at it
C25_WitnessNothingThere ==
    /\ bind_location = "Path"
    /\ Len(listen_log) >= 2
    /\ listen_log[1] = [op |-> "symlink_metadata", result |-> io_Error("NotFound")]
    /\ listen_log[2] = [op |-> "bind", result |-> Ok_unit]
    /\ listen_pc = "accept"

(***************************************************************************)
(* What the claims on the returned configs speak of.                       *)
(***************************************************************************)
\* the Allow rules written inline in a list of rule selections
AllowRulesIn(list) == { rule \in InlineConfigsIn(list) : rule.action.tag = "Allow" }

\* the Allow rules of a ServerConfig: of its rules and of every override_rules
AllowRulesOf(server_config) ==
    UNION { AllowRulesIn(list) : list \in RuleListsOf(server_config) }

\* the ClientConfigs the Allow rules of a ServerConfig select
SelectedClients(server_config) ==
    UNION { InlineConfigsIn(rule.action.client_proxies.items) :
            rule \in AllowRulesOf(server_config) }

ReturnedServers == IF ReturnedOk THEN Range(result.value) ELSE {}

ConfigOf(selection) == selection.config

\* C28: start_tcp_server does not panic on a ServerConfig load_configs
\* returned: every selection of its rules is an inline config, so that
\* unwrap_config meets no GroupName, and the rules are not empty, so that the
\* assertion holds; the selector of the listener and the one entry of the
\* rule stack given to the handler factory are both the rules of the
\* ServerConfig, in its order.
C28_StartPreconditionsHold ==
    /\ \A server_config \in ReturnedServers :
          /\ AllConfig(server_config.rules)
          /\ server_config.rules.items # <<>>
          /\ start_tcp_server(server_config).tag = "Started"
    /\ \A i \in 1..Len(started) :
          /\ started[i].tag = "Started"
          /\ started[i].rules_stack =
                 <<MapSeq(result.value[i].rules.items, ConfigOf)>>
          /\ started[i].client_proxy_selector.rules = started[i].rules_stack[1]

\* a server was started whose rules were written as the name of a rule group
\* and are now the two rules of the group, the second with the clients of a
\* client group
C28_Witness ==
    /\ Len(started) = 1 /\ started[1].tag = "Started"
    /\ InputServers[1].rules.items = <<GroupName("r1")>>
    /\ Len(started[1].rules_stack[1]) = 2
    /\ started[1].client_proxy_selector.rules[2].action.tag = "Allow"
    /\ Len(started[1].rules_stack[1][2].action.client_proxies.items) >= 2

\* two servers were started: the rules of the first named a rule group with
\* no rule, the rules of the second were written empty; both were seeded
C28_WitnessSeeded ==
    /\ Len(started) = 2
    /\ started[1].tag = "Started" /\ started[2].tag = "Started"
    /\ GroupNamesIn(InputServers[1].rules.items) # {}
    /\ InputServers[2].rules.items = <<>>
    /\ Len(started[1].rules_stack[1]) = 1
    /\ started[1].rules_stack[1][1].masks = RuleConfig_default.masks
    /\ started[1].rules_stack[1][1].action.tag = "Allow"

(***************************************************************************)
(* load_configs as a function of the entries it has read: what it returns  *)
(* for a document, to compare a document with its permutations.            *)
(***************************************************************************)
RECURSIVE RegisterAll(_, _, _, _)
RECURSIVE RegisterRest(_, _)
RegisterAll(entries, cg, rg, sc) ==
    IF entries = <<>>
    THEN [client_groups |-> cg, rule_groups |-> rg, server_configs |-> sc, err |-> <<>>]
    ELSE RegisterRest(Tail(entries), register(Head(entries), cg, rg, sc))
RegisterRest(entries, r) ==
    IF r.err # <<>> THEN r
    ELSE RegisterAll(entries, r.client_groups, r.rule_groups, r.server_configs)

PrependOk(x, rest) == IF rest.ok THEN Ok(<<x>> \o rest.val) ELSE rest
RECURSIVE ValidateAll(_, _, _)
RECURSIVE ValidateRest(_, _, _, _)
ValidateAll(sc, cg, rg) ==
    IF sc = <<>> THEN Ok(<<>>)
    ELSE ValidateRest(validate_server_config(Head(sc), cg, rg), Tail(sc), cg, rg)
ValidateRest(r, rest, cg, rg) ==
    IF ~r.ok THEN r ELSE PrependOk(r.val, ValidateAll(rest, cg, rg))

ResultOf(v) ==
    IF v.ok THEN Returned(v.val) ELSE [tag |-> "Err", kind |-> v.kind, msg |-> v.msg]
LoadedFrom(r) ==
    IF r.err # <<>> THEN InvalidInput(r.err[1])
    ELSE ResultOf(ValidateAll(r.server_configs, r.client_groups, r.rule_groups))
Loaded(doc) ==
    LoadedFrom(RegisterAll(doc, builtin_client_groups, builtin_rule_groups, <<>>))

\* the sequence with its entries i and i + 1 exchanged
Swapped(seq, i) ==
    [k \in 1..Len(seq) |->
        IF k = i THEN seq[i + 1] ELSE IF k = i + 1 THEN seq[i] ELSE seq[k]]
\* how many of the first i entries are ServerConfigs
ServersUpTo(doc, i) == Len(SelectSeq(SubSeq(doc, 1, i), IsServer))
\* the returned configs, moved as the exchange of entries i and i + 1 moves
\* the ServerConfigs of the document
MovedWith(value, doc, i) ==
    IF IsServer(doc[i]) /\ IsServer(doc[i + 1])
    THEN Swapped(value, ServersUpTo(doc, i))
    ELSE value

GroupNamesOf(doc) ==
    [i \in { j \in 1..Len(doc) : ~IsServer(doc[j]) } |->
        IF doc[i].kind = "ClientConfigGroup"
        THEN <<"client", doc[i].client_group>> ELSE <<"rule", doc[i].rule_group>>]
UniqueGroupNames(doc) ==
    /\ \A i, j \in DOMAIN GroupNamesOf(doc) :
           GroupNamesOf(doc)[i] = GroupNamesOf(doc)[j] => i = j
    /\ \A i \in DOMAIN GroupNamesOf(doc) :
           GroupNamesOf(doc)[i] \notin
               {<<"client", "direct">>, <<"rule", "allow-all-direct">>,
                <<"rule", "block-all">>}

SameUpToOrder(doc, i) ==
    /\ Loaded(Swapped(doc, i)).tag = Loaded(doc).tag
    /\ Loaded(doc).tag = "Ok" =>
           Loaded(Swapped(doc, i)).value = MovedWith(Loaded(doc).value, doc, i)

\* C29: groups resolve independently of the order of the entries.  No
\* ServerConfig is validated before every group of every file is registered;
\* what load_configs returns is a function of the concatenated entries; and
\* when the group names are unique, exchanging two neighbouring entries (and
\* so, by repetition, any permutation) makes load_configs fail as before or
\* return the same validated ServerConfigs, in the order the permuted
\* document gives them.
C29_GroupsResolveInAnyOrder ==
    /\ pc = "register" =>
           /\ idx = 1
           /\ server_configs = SubSeq(InputServers, 1, Len(server_configs))
    /\ pc = "validate" =>
           /\ all_configs = <<>>
           /\ DOMAIN client_groups = DefinedClientGroups(Doc)
           /\ DOMAIN rule_groups = DefinedRuleGroups(Doc)
    /\ (pc = "done" /\ unread = <<>>) =>
           /\ result = Loaded(Doc)
           /\ UniqueGroupNames(Doc) =>
                  \A i \in 1..(Len(Doc) - 1) : SameUpToOrder(Doc, i)

\* a ServerConfig, alone in the first file, names a rule group that the
\* second file defines after the client group this rule group names;
\* load_configs has returned it with the rules of the group
C29_Witness ==
    /\ ReturnedOk /\ Len(Doc) = 3
    /\ IsServer(Doc[1]) /\ Doc[1].server_config.rules.items = <<GroupName("r1")>>
    /\ Doc[2].kind = "ClientConfigGroup" /\ Doc[3].kind = "RuleConfigGroup"
    /\ Len(result.value[1].rules.items) = 2
    /\ SameUpToOrder(Doc, 1) /\ SameUpToOrder(Doc, 2)

====
